---- MODULE Spec2Model ----
(***************************************************************************)
(* Model of the crawling core of doc-search: the retrying request client   *)
(* (core/safe_requests.py), the GitHub rate-limit mixins                   *)
(* (core/rate_limits/github.py), the bulk upsert of core/db.py, and the    *)
(* two crawlers scripts/fetch_github_repos_links.py and                    *)
(* scripts/fetch_stackoverflow_questions.py.                               *)
(*                                                                         *)
(* Time is the integer clock `now` (seconds); time.time() reads it and     *)
(* time.sleep(d) adds d to it, raising ValueError when d < 0.              *)
(***************************************************************************)
EXTENDS Integers, Sequences, FiniteSets, TLC

VARIABLES
    now,               \* time.time()
    \* ---- core/rate_limits/github.py ----
    queries_remaining, \* FirstLimitRateMixin._queries_remaining, per instance
    reset_timestemp,   \* FirstLimitRateMixin._reset_timestemp, per instance
    points,            \* PointsRateLimitMixin._points (class-level deque)
    timestamps,        \* PointsRateLimitMixin._timestamps (class-level deque)
    total_points,      \* PointsRateLimitMixin._total_points, per instance
    calls,             \* history: every (cost, time) handed to _update_points_rate_limit
    first_wait,        \* history: last apply_first_rate_limit call and its time_to_wait
    points_wait,       \* history: last apply_points_rate_limit call and its time_to_wait
    checked,           \* history: last _check_rate_limits call and the time it slept
    queried,           \* history: last reading of the four rate-limit properties
    bulk,              \* history: the last update_bulk call and the collection before it
    issued,            \* history: when fetch_repos issued each HTTP request of this run,
                       \* and how many requests it handed to _update_points_rate_limit
    \* ---- core/safe_requests.py ----
    sr_pc,             \* position in _safe_request
    max_retries,       \* its max_retries argument
    retry_count,       \* its retry_count local
    sr_hist,           \* history: outcome of every attempt of the call
    sr_sleeps,         \* history: number of time.sleep(retry_delay) calls
    sr_result,         \* what the call handed to its caller
    \* ---- the crawlers ----
    mode,              \* which script runs: "gh" (fetch_github_repos_links) or "so"
    pc,                \* position of the running script
    run,               \* number of the current run of the script
    how1,              \* history: how the first run ended
    store1,            \* history: the collection when the first run ended
    store,             \* the MongoDB collection: documents in insertion order
    dataset,           \* the pages the remote API serves
    cursor,            \* page the crawler requests (next-link URL / params["page"])
    response,          \* the response of the last successful request
    persisted,         \* history: pages whose update_bulk call has returned in this run
    all403,            \* history: every failed attempt of the current request was a 403
    \* ---- scripts/fetch_stackoverflow_questions.py ----
    workers,           \* the Worker objects: init_time, restart_time, quota_remaining,
                       \* backoff_end_time, app_key
    class_key,         \* StackOverflowQuestionsFetcher.PARAMS["key"]
    params_key,        \* params["key"] of fetch_questions' copy of PARAMS
    wi,                \* _init_run: the worker to bootstrap next
    selected,          \* id_: the worker _sample_worker_id returned
    slept,             \* history: the last _wait_for_next_request: its time, its sleep
                       \* and the workers it saw
    boots,             \* history: get_request calls of _init_run, per worker
    boot_failed,       \* history: a get_request of _init_run returned None
    page_requests,     \* history: get_request calls of the main loop
    backoff_due,       \* history: per worker, when the last backoff a response of
                       \* its carried runs out with the grace period (NONE: none yet)
    reset_quota,       \* history: per worker, the quota_remaining of the payload its
                       \* last reset_worker request returned (NONE: no payload)
    \* ---- core/parsers/__init__.py ----
    url,               \* the url get_parser is called with, as a sequence of tokens
    parser,            \* what get_parser returned ("unset" before the call)
    \* ---- core/parsers/*.py ----
    page,              \* the html page handed to a parser, as the elements it holds
    parsed,            \* what the parser did with it: a document or an exception
    \* ---- core/retrievers/document_retriever.py ----
    links_raw,         \* the links _parse_documents is called with, each with what
                       \* fetching it delivers
    retrieved,         \* what _parse_documents returned and logged
    \* ---- core/cache/persistent_cache.py ----
    disk,              \* the cache directory: whether it exists, its config.json and
                       \* its document files
    cache,             \* the DocumentsPersistentCache object, once constructed
    cache_op,          \* history: the last call on the cache and what it returned
    latest             \* history: per formatted key, the document inserted last
                       \* since the last clear

trackerVars == <<queries_remaining, reset_timestemp, points, timestamps, total_points>>
retryVars == <<sr_pc, max_retries, retry_count, sr_hist, sr_sleeps, sr_result>>
histVars == <<calls, first_wait, points_wait, checked, queried, bulk, issued>>
ghVars == <<mode, pc, run, how1, store1, store, dataset, cursor, response, persisted, all403>>
soVars == <<workers, class_key, params_key, wi, selected, slept, boots, boot_failed, page_requests,
            backoff_due, reset_quota>>
crawlVars == <<ghVars, soVars>>
dispatchVars == <<url, parser>>
parseVars == <<page, parsed>>
retrieveVars == <<links_raw, retrieved>>
cacheVars == <<disk, cache, cache_op, latest>>
docVars == <<dispatchVars, parseVars, retrieveVars, cacheVars>>
vars == <<now, trackerVars, histVars, retryVars, crawlVars, docVars>>

\* ------------------------------------------------------------------
\* Bounds of the model
\* ------------------------------------------------------------------
T0 == 200000           \* clock value at start
MaxCalls == 4          \* tracker calls in one behaviour
MaxRetriesArg == 3     \* largest max_retries argument tried
NumInstances == 2      \* objects built from the mixin classes

None == "None"
NONE == -1             \* None in a field that otherwise holds a time or a quota
Instances == 1..NumInstances

Max(a, b) == IF a >= b THEN a ELSE b
Min(a, b) == IF a <= b THEN a ELSE b

RECURSIVE SumSeq(_)
SumSeq(s) == IF s = <<>> THEN 0 ELSE Head(s) + SumSeq(Tail(s))

\* ------------------------------------------------------------------
\* core/rate_limits/github.py
\* ------------------------------------------------------------------
WINDOW == 60
POINTS_RATE_LIMIT == 900
Verbs == {"get", "head", "options", "post", "patch", "put", "delete"}
POINTS_MAPPING == [v \in Verbs |-> IF v \in {"get", "head", "options"} THEN 1 ELSE 5]

\* sum(self.POINTS_MAPPING[t] for t in request_types), summed by halves
RECURSIVE RequestPoints(_)
RequestPoints(request_types) ==
    IF request_types = <<>> THEN 0
    ELSE IF Len(request_types) = 1 THEN POINTS_MAPPING[request_types[1]]
    ELSE LET h == Len(request_types) \div 2
         IN RequestPoints(SubSeq(request_types, 1, h))
            + RequestPoints(SubSeq(request_types, h + 1, Len(request_types)))

\* The loop test of the eviction: the oldest entry is older than the window.
Expired(ts, curr_time) == curr_time - ts > WINDOW

\* Evict with `if` in place of `while`: at most one entry leaves.
EvictIf(w, curr_time) ==
    IF Expired(Head(w.t), curr_time)
    THEN [p |-> Tail(w.p), t |-> Tail(w.t), total |-> w.total - Head(w.p)]
    ELSE w

\* while curr_time - self._timestamps[0] > 60: pop the left entry of both
\* deques and take its points off the total.  w = [p, t, total].
RECURSIVE Evict(_, _)
Evict(w, curr_time) ==
    IF Expired(Head(w.t), curr_time)
    THEN Evict([p |-> Tail(w.p), t |-> Tail(w.t), total |-> w.total - Head(w.p)], curr_time)
    ELSE w

\* _update_points_rate_limit on instance i at time curr_time: the deques
\* are the class's, the total is the instance's.
UpdatedWindow(i, request_types, curr_time) ==
    LET pts == RequestPoints(request_types)
    IN Evict([p |-> Append(points, pts),
              t |-> Append(timestamps, curr_time),
              total |-> total_points[i] + pts], curr_time)

\* the limit test with >= in place of >
IsPointsLimitExceededInclusive(total) == total >= POINTS_RATE_LIMIT

\* is_points_limit_exceeded
IsPointsLimitExceeded(total) == total > POINTS_RATE_LIMIT

\* points_limit_time_to_wait, read at time t with oldest timestamp ts0
PointsLimitTimeToWait(ts0, t) == WINDOW - (t - ts0)

\* self._timestamps[0] raises IndexError on an empty deque
PointsWaitRaises(ts) == ts = <<>>

\* is_first_rate_limit_exceeded
IsFirstRateLimitExceeded(remaining) == remaining = 0

\* first_rate_limit_time_to_wait, read at time t
FirstRateLimitTimeToWait(reset, t) == reset - t

TrackerInit ==
    /\ queries_remaining = [i \in Instances |-> 0]
    /\ reset_timestemp = [i \in Instances |-> 0]
    /\ points = <<>>
    /\ timestamps = <<>>
    /\ total_points = [i \in Instances |-> 0]

NoResponse == [page |-> 0, remaining |-> 0, reset |-> 0, backoff |-> NONE]
NoSleep == [n |-> 0, at |-> 0, d |-> 0, ws |-> <<>>]

SOIdle ==
    /\ workers = <<>>
    /\ class_key = "none"
    /\ params_key = "none"
    /\ wi = 0
    /\ selected = 0
    /\ slept = NoSleep
    /\ boots = <<>>
    /\ boot_failed = FALSE
    /\ page_requests = 0
    /\ backoff_due = <<>>
    /\ reset_quota = <<>>

CrawlIdle ==
    /\ mode = "none"
    /\ pc = "idle"
    /\ run = 0
    /\ how1 = "none"
    /\ store1 = <<>>
    /\ store = <<>>
    /\ dataset = <<>>
    /\ cursor = 0
    /\ response = NoResponse
    /\ persisted = {}
    /\ all403 = FALSE
    /\ SOIdle

NoWait == [n |-> 0, at |-> 0, wait |-> 0, raised |-> FALSE]
NoPointsWait == [n |-> 0, at |-> 0, exceeded |-> FALSE, wait |-> 0, d |-> 0, raised |-> FALSE]
NoCheck == [n |-> 0, at |-> 0, remaining |-> 0, reset |-> 0, total0 |-> 0, oldest0 |-> 0,
            slept |-> 0, raised |-> FALSE]
NoBulk == [n |-> 0, before |-> <<>>, data |-> <<>>, upsert |-> FALSE]
NoIssued == [times |-> <<>>, accounted |-> 0]
NoQuery == [n |-> 0, fresh |-> FALSE, first_exceeded |-> FALSE, first_wait |-> 0,
            points_exceeded |-> FALSE, points_raises |-> FALSE, points_wait |-> 0]

HistInit ==
    /\ calls = <<>>
    /\ first_wait = NoWait
    /\ points_wait = NoPointsWait
    /\ checked = NoCheck
    /\ queried = NoQuery
    /\ bulk = NoBulk
    /\ issued = NoIssued

DispatchIdle ==
    /\ url = <<>>
    /\ parser = "unset"

NoPage == [variant |-> "none"]
NoParse == [kind |-> "unset"]

ParseIdle ==
    /\ page = NoPage
    /\ parsed = NoParse

NoRetrieve == [kind |-> "unset"]

RetrieveIdle ==
    /\ links_raw = <<>>
    /\ retrieved = NoRetrieve

NoConfig == [exists |-> FALSE]
NoDisk == [dir |-> "missing", config |-> NoConfig, files |-> <<>>]
NoCache == [state |-> "none"]
NoCacheOp == [op |-> "none"]

CacheIdle ==
    /\ disk = NoDisk
    /\ cache = NoCache
    /\ cache_op = NoCacheOp
    /\ latest = <<>>

DocIdle ==
    /\ DispatchIdle
    /\ ParseIdle
    /\ RetrieveIdle
    /\ CacheIdle

RetryIdle ==
    /\ sr_pc = "idle"
    /\ max_retries = 0
    /\ retry_count = 0
    /\ sr_hist = <<>>
    /\ sr_sleeps = 0
    /\ sr_result = "unset"

\* ------------------------------------------------------------------
\* The points window of one tracker under arbitrary timing
\* ------------------------------------------------------------------
Deltas == {0, 30, 60, 61}
RequestTypeLists == {<<>>, <<"get">>, <<"post", "get">>}

\* self._update_points_rate_limit(request_types), dt seconds after the
\* previous call
UpdatePointsRateLimit(i, request_types, dt) ==
    LET curr_time == now + dt
        w == UpdatedWindow(i, request_types, curr_time)
    IN /\ Len(calls) < MaxCalls
       /\ now' = curr_time
       /\ points' = w.p
       /\ timestamps' = w.t
       /\ total_points' = [total_points EXCEPT ![i] = w.total]
       /\ calls' = Append(calls, [cost |-> RequestPoints(request_types), at |-> curr_time, by |-> i])
       /\ UNCHANGED <<queries_remaining, reset_timestemp, first_wait, points_wait, checked, queried, bulk, issued, docVars,
                    retryVars, crawlVars>>

InitPoints ==
    /\ now = T0
    /\ TrackerInit
    /\ HistInit
    /\ DocIdle
    /\ RetryIdle
    /\ CrawlIdle

NextPoints ==
    \E request_types \in RequestTypeLists, dt \in Deltas :
        UpdatePointsRateLimit(1, request_types, dt)

SpecPoints == InitPoints /\ [][NextPoints]_vars

\* Sum of the recorded costs whose timestamp is within the trailing window
RECURSIVE CostWithin(_, _)
CostWithin(cs, t) ==
    IF cs = <<>> THEN 0
    ELSE (IF t - Head(cs).at <= WINDOW THEN Head(cs).cost ELSE 0) + CostWithin(Tail(cs), t)

\* C3: immediately after every _update_points_rate_limit call on one tracker,
\* _total_points is the exact sum of the costs recorded within the trailing
\* 60 seconds, and no stored entry is older than 60 seconds.
C3_WindowTotalExact ==
    calls # <<>> =>
        /\ total_points[1] = CostWithin(calls, now)
        /\ total_points[1] = SumSeq(points)
        /\ Len(points) = Len(timestamps)
        /\ \A k \in 1..Len(timestamps) : now - timestamps[k] <= WINDOW

\* a call that evicted two entries at once and kept a younger one
C3_Witness ==
    /\ Len(calls) >= 4
    /\ Len(points) = 2
    /\ CostWithin(calls, now) > 0
    /\ total_points[1] < SumSeq([k \in 1..Len(calls) |-> calls[k].cost])

\* ------------------------------------------------------------------
\* The primary limit: apply_first_rate_limit
\* ------------------------------------------------------------------
\* time.sleep(d) raises ValueError for a negative d
SleepRaises(d) == d < 0

\* The time.sleep call of apply_first_rate_limit, made at time t after
\* _update_first_rate_limit stored (remaining, reset): whether it is made
\* (only when the limit is exceeded), the time_to_wait it read and its
\* argument d.
FirstLimitSleep(remaining, reset, t, time_delta) ==
    IF IsFirstRateLimitExceeded(remaining)
    THEN [sleeps |-> TRUE,
          wait |-> FirstRateLimitTimeToWait(reset, t),
          d |-> FirstRateLimitTimeToWait(reset, t) + time_delta]
    ELSE [sleeps |-> FALSE, wait |-> 0, d |-> 0]

ResetOffsets == {-20, -5, -1, 0, 7}
RemainingValues == {0, 1, 5}
TimeDeltas == {0, 5}

\* self.apply_first_rate_limit(response, time_delta) on a response whose
\* headers carry X-RateLimit-Remaining = remaining and X-RateLimit-Reset =
\* now + off
ApplyFirstRateLimit(i, remaining, off, time_delta) ==
    LET reset == now + off
        sl == FirstLimitSleep(remaining, reset, now, time_delta)
    IN /\ first_wait.n < MaxCalls
       /\ queries_remaining' = [queries_remaining EXCEPT ![i] = remaining]
       /\ reset_timestemp' = [reset_timestemp EXCEPT ![i] = reset]
       /\ first_wait' = [n |-> first_wait.n + 1,
                         at |-> now,
                         wait |-> sl.wait,
                         raised |-> sl.sleeps /\ SleepRaises(sl.d)]
       /\ now' = IF sl.sleeps /\ ~SleepRaises(sl.d) THEN now + sl.d ELSE now
       /\ UNCHANGED <<points, timestamps, total_points, calls, points_wait, checked, queried, bulk, issued, docVars,
                    retryVars, crawlVars>>

InitFirst ==
    /\ now = T0
    /\ TrackerInit
    /\ HistInit
    /\ DocIdle
    /\ RetryIdle
    /\ CrawlIdle

NextFirst ==
    \E remaining \in RemainingValues, off \in ResetOffsets, time_delta \in TimeDeltas :
        ApplyFirstRateLimit(1, remaining, off, time_delta)

SpecFirst == InitFirst /\ [][NextFirst]_vars

\* C10: the primary wait used by apply_first_rate_limit is
\* max(0, reset_at - now) when queries_remaining = 0 and 0 otherwise, so it
\* is never negative, also when the reset timestamp lies in the past.
C10_PrimaryWaitClamped ==
    first_wait.n > 0 =>
        /\ first_wait.wait >= 0
        /\ first_wait.wait = IF queries_remaining[1] = 0
                             THEN Max(0, reset_timestemp[1] - first_wait.at)
                             ELSE 0

\* ------------------------------------------------------------------
\* Two objects of the mixin classes in one process
\* ------------------------------------------------------------------
MaxShared == 3         \* calls on the two objects in one behaviour
SharedTypeLists == {<<"get">>, <<"post">>}
SharedDeltas == {0, 61}
SharedHeaders == {<<0, 0>>, <<5, 7>>}

InitShared ==
    /\ now = T0
    /\ TrackerInit
    /\ HistInit
    /\ DocIdle
    /\ RetryIdle
    /\ CrawlIdle

NextShared ==
    \E i \in Instances :
        /\ Len(calls) + first_wait.n < MaxShared
        /\ \/ \E request_types \in SharedTypeLists, dt \in SharedDeltas :
                 UpdatePointsRateLimit(i, request_types, dt)
           \/ \E h \in SharedHeaders : ApplyFirstRateLimit(i, h[1], h[2], 0)

SpecShared == InitShared /\ [][NextShared]_vars

\* the object that made the call a step records
Caller == calls'[Len(calls')].by

\* C20: with two objects in one process, recording a request cost or a
\* response on one of them never changes the points window, the timestamps
\* or the total of the other, and the total of each object is always the
\* sum of the window it reads, however their calls interleave.
C20_StateExclusivelyOwned ==
    /\ [](\A j \in Instances : total_points[j] = SumSeq(points))
    /\ [][\A j \in Instances :
            /\ (calls' # calls /\ Caller # j) =>
                  /\ points' = points
                  /\ timestamps' = timestamps
                  /\ total_points'[j] = total_points[j]
            /\ (first_wait' # first_wait /\ queries_remaining'[j] # queries_remaining[j]) =>
                  \A k \in Instances \ {j} :
                      /\ queries_remaining'[k] = queries_remaining[k]
                      /\ reset_timestemp'[k] = reset_timestemp[k]]_vars

\* ------------------------------------------------------------------
\* The points limit: apply_points_rate_limit, and a caller reading the
\* properties of a tracker
\* ------------------------------------------------------------------
MaxApplies == 3        \* apply_points_rate_limit calls in one behaviour

\* request_types of n "post" requests
Posts(n) == [k \in 1..n |-> "post"]
ApplyTypeLists == {<<"get">>, <<"post", "get">>, Posts(180)}
ApplyDeltas == {0, 30, 61}
PointsTimeDeltas == {0, 2}

\* The time.sleep call of apply_points_rate_limit, made at time t after
\* _update_points_rate_limit left the window w: whether it is made (only
\* when the limit is exceeded), the time_to_wait it read and its argument d.
PointsLimitSleep(w, t, time_delta) ==
    IF IsPointsLimitExceeded(w.total)
    THEN [sleeps |-> TRUE,
          wait |-> PointsLimitTimeToWait(Head(w.t), t),
          d |-> PointsLimitTimeToWait(Head(w.t), t) + time_delta]
    ELSE [sleeps |-> FALSE, wait |-> 0, d |-> 0]

\* self.apply_points_rate_limit(request_types, time_delta), dt seconds
\* after the previous call returned; w is the window the update leaves (its
\* last entry is the cost just recorded), sl the sleep that follows.
ApplyPointsRateLimit(i, request_types, dt, time_delta) ==
    /\ points_wait.n < MaxApplies
    /\ \E w \in {UpdatedWindow(i, request_types, now + dt)} :
         \E sl \in {PointsLimitSleep(w, now + dt, time_delta)} :
            /\ points' = w.p
            /\ timestamps' = w.t
            /\ total_points' = [total_points EXCEPT ![i] = w.total]
            /\ calls' = Append(calls, [cost |-> w.p[Len(w.p)], at |-> now + dt, by |-> i])
            /\ points_wait' = [n |-> points_wait.n + 1,
                               at |-> now + dt,
                               exceeded |-> sl.sleeps,
                               wait |-> sl.wait,
                               d |-> sl.d,
                               raised |-> sl.sleeps /\ SleepRaises(sl.d)]
            /\ now' = IF sl.sleeps /\ ~SleepRaises(sl.d) THEN now + dt + sl.d ELSE now + dt
            /\ UNCHANGED <<queries_remaining, reset_timestemp, first_wait, checked, queried, bulk, issued, docVars,
                           retryVars, crawlVars>>

\* A caller reads is_first_rate_limit_exceeded, first_rate_limit_time_to_wait,
\* is_points_limit_exceeded and points_limit_time_to_wait of the object i.
\* fresh: nothing has been recorded on the tracker yet.
ReadProperties(i) ==
    /\ queried' = [n |-> 1,
                   fresh |-> calls = <<>> /\ first_wait.n = 0 /\ checked.n = 0,
                   first_exceeded |-> IsFirstRateLimitExceeded(queries_remaining[i]),
                   first_wait |-> FirstRateLimitTimeToWait(reset_timestemp[i], now),
                   points_exceeded |-> IsPointsLimitExceeded(total_points[i]),
                   points_raises |-> PointsWaitRaises(timestamps),
                   points_wait |-> IF PointsWaitRaises(timestamps) THEN 0
                                   ELSE PointsLimitTimeToWait(Head(timestamps), now)]
    /\ UNCHANGED <<now, trackerVars, calls, first_wait, points_wait, checked, bulk, issued, docVars, retryVars, crawlVars>>

InitApply ==
    /\ now = T0
    /\ TrackerInit
    /\ HistInit
    /\ DocIdle
    /\ RetryIdle
    /\ CrawlIdle

NextApply ==
    \/ \E request_types \in ApplyTypeLists, dt \in ApplyDeltas, time_delta \in PointsTimeDeltas :
          ApplyPointsRateLimit(1, request_types, dt, time_delta)
    \/ ReadProperties(1)

SpecApply == InitApply /\ [][NextApply]_vars

C12_FreshTrackerZeroWait ==
    (queried.n > 0 /\ queried.fresh) =>
        /\ ~queried.first_exceeded
        /\ ~queried.points_exceeded
        /\ ~queried.points_raises
        /\ queried.points_wait = 0

\* ------------------------------------------------------------------
\* core/safe_requests.py: _safe_request
\* ------------------------------------------------------------------
RETRY_DELAY == 5
\* What one pass through the try block can do: request_func raises (network
\* error), handle_func raises (bad status, malformed payload), handle_func
\* returns, or something that is not an Exception (KeyboardInterrupt,
\* SystemExit) is raised.
Failures == {"network_error", "bad_status", "malformed_payload"}
HandlerResults == {"r1", "r2"}

\* the loop test with <= in place of <
LoopTestInclusive(count, maxr) == count <= maxr

\* while retry_count < max_retries
LoopTest(count, maxr) == count < maxr

AllFailed(hist) == \A k \in 1..Len(hist) : hist[k].kind \in Failures

\* _safe_request(request_func, handle_func, url, ..., max_retries = n)
CallSafeRequest(n) ==
    /\ sr_pc = "idle"
    /\ sr_pc' = "loop"
    /\ max_retries' = n
    /\ retry_count' = 0
    /\ UNCHANGED <<now, trackerVars, histVars, docVars, crawlVars, sr_hist, sr_sleeps, sr_result>>

\* the except block without the sleep after the last failed attempt
AttemptFailsNoLastSleep(kind) ==
    /\ sr_pc = "loop"
    /\ LoopTest(retry_count, max_retries)
    /\ sr_hist' = Append(sr_hist, [kind |-> kind, val |-> None])
    /\ retry_count' = retry_count + 1
    /\ sr_sleeps' = IF retry_count + 1 < max_retries THEN sr_sleeps + 1 ELSE sr_sleeps
    /\ now' = IF retry_count + 1 < max_retries THEN now + RETRY_DELAY ELSE now
    /\ UNCHANGED <<trackerVars, histVars, docVars, crawlVars, sr_pc, max_retries, sr_result>>

\* the try block raised an Exception: log, retry_count += 1, sleep
AttemptFails(kind) ==
    /\ sr_pc = "loop"
    /\ LoopTest(retry_count, max_retries)
    /\ sr_hist' = Append(sr_hist, [kind |-> kind, val |-> None])
    /\ retry_count' = retry_count + 1
    /\ sr_sleeps' = sr_sleeps + 1
    /\ now' = now + RETRY_DELAY
    /\ UNCHANGED <<trackerVars, histVars, docVars, crawlVars, sr_pc, max_retries, sr_result>>

\* handle_func returned v: break, return result
AttemptSucceeds(v) ==
    /\ sr_pc = "loop"
    /\ LoopTest(retry_count, max_retries)
    /\ sr_hist' = Append(sr_hist, [kind |-> "ok", val |-> v])
    /\ sr_result' = v
    /\ sr_pc' = "returned"
    /\ UNCHANGED <<now, trackerVars, histVars, docVars, crawlVars, max_retries, retry_count, sr_sleeps>>

\* something outside `except Exception` is raised: it reaches the caller
AttemptInterrupted ==
    /\ sr_pc = "loop"
    /\ LoopTest(retry_count, max_retries)
    /\ sr_hist' = Append(sr_hist, [kind |-> "base_exception", val |-> None])
    /\ sr_pc' = "raised"
    /\ UNCHANGED <<now, trackerVars, histVars, docVars, crawlVars, max_retries, retry_count, sr_sleeps, sr_result>>

\* the else clause of the while loop: log the terminal failure, return None
LoopExhausted ==
    /\ sr_pc = "loop"
    /\ ~LoopTest(retry_count, max_retries)
    /\ sr_result' = None
    /\ sr_pc' = "returned"
    /\ UNCHANGED <<now, trackerVars, histVars, docVars, crawlVars, max_retries, retry_count, sr_hist, sr_sleeps>>

InitRetry ==
    /\ now = T0
    /\ TrackerInit
    /\ HistInit
    /\ DocIdle
    /\ RetryIdle
    /\ CrawlIdle

NextRetry ==
    \/ \E n \in 0..MaxRetriesArg : CallSafeRequest(n)
    \/ \E kind \in Failures : AttemptFails(kind)
    \/ \E v \in HandlerResults : AttemptSucceeds(v)
    \/ AttemptInterrupted
    \/ LoopExhausted

SpecRetry == InitRetry /\ [][NextRetry]_vars

\* C2: with max_retries = N >= 1 and every attempt failing with an Exception
\* (in request_func or in handle_func), _safe_request makes exactly N
\* attempts, returns None and raises nothing.
C2_RetryBound ==
    (max_retries >= 1 /\ AllFailed(sr_hist)) =>
        /\ sr_pc # "raised"
        /\ Len(sr_hist) <= max_retries
        /\ sr_pc = "returned" => (Len(sr_hist) = max_retries /\ sr_result = None)

\* three failed attempts, one of each kind, then the sentinel
C2_Witness ==
    /\ max_retries = 3
    /\ sr_pc = "returned"
    /\ sr_result = None
    /\ Len(sr_hist) = 3
    /\ sr_hist[1].kind = "network_error"
    /\ sr_hist[2].kind = "bad_status"
    /\ sr_hist[3].kind = "malformed_payload"

\* ------------------------------------------------------------------
\* core/db.py: MongoDB.update_bulk
\* ------------------------------------------------------------------
\* A document is a function from its field names to values; a collection
\* is the sequence of its documents in insertion order.

\* $set that writes only the fields doc lacks
SetFieldsKeepOld(doc, entry) ==
    [f \in DOMAIN doc \cup DOMAIN entry |-> IF f \in DOMAIN doc THEN doc[f] ELSE entry[f]]

\* {"$set": entry} applied to doc: entry's fields are written, the other
\* fields of doc stay.
SetFields(doc, entry) ==
    [f \in DOMAIN doc \cup DOMAIN entry |-> IF f \in DOMAIN entry THEN entry[f] ELSE doc[f]]

Matches(doc, field, value) == field \in DOMAIN doc /\ doc[field] = value

\* the operation as a plain insert: every entry becomes a new document
UpdateOneInsert(coll, field, value, entry, upsert) ==
    Append(coll, SetFields([f \in {field} |-> value], entry))

\* UpdateOne({field: value}, {"$set": entry}, upsert=upsert): the first
\* matching document is updated; without a match and with upsert a new
\* document is inserted from the filter and the $set fields.
UpdateOne(coll, field, value, entry, upsert) ==
    LET hits == {k \in 1..Len(coll) : Matches(coll[k], field, value)}
    IN IF hits # {}
       THEN LET k == CHOOSE h \in hits : \A g \in hits : h <= g
            IN [coll EXCEPT ![k] = SetFields(coll[k], entry)]
       ELSE IF upsert
            THEN Append(coll, SetFields([f \in {field} |-> value], entry))
            ELSE coll

\* update_bulk that drops the upsert flag: unmatched entries are not inserted
RECURSIVE UpdateBulkNoUpsert(_, _, _, _)
UpdateBulkNoUpsert(coll, update_key, data, upsert) ==
    IF data = <<>> THEN coll
    ELSE UpdateBulkNoUpsert(UpdateOne(coll, update_key, Head(data)[update_key], Head(data), FALSE),
                            update_key, Tail(data), upsert)

\* update_bulk(update_key, data, upsert): one UpdateOne per entry, written
\* by bulk_write in the order of data.
RECURSIVE UpdateBulk(_, _, _, _)
UpdateBulk(coll, update_key, data, upsert) ==
    IF data = <<>> THEN coll
    ELSE UpdateBulk(UpdateOne(coll, update_key, Head(data)[update_key], Head(data), upsert),
                    update_key, Tail(data), upsert)

\* ---- update_bulk on its own ----
MaxBulks == 2          \* update_bulk calls in one behaviour
MaxBatch == 2          \* records in one batch
BulkKey == "id"
BulkFields == {"a", "b"}
BulkValues == {1, 2}

\* the records a batch is made of: the key field and any of the other fields
BulkRecords ==
    UNION {{r \in [{BulkKey} \cup fs -> BulkValues] : "b" \in fs => r["b"] = 1} :
              fs \in SUBSET BulkFields}

Batches == UNION {[1..n -> BulkRecords] : n \in 0..MaxBatch}

\* MongoDB.update_bulk(update_key, data, upsert=upsert) on the collection
UpdateBulkCall(data, upsert) ==
    /\ bulk.n < MaxBulks
    /\ store' = UpdateBulk(store, BulkKey, data, upsert)
    /\ bulk' = [n |-> bulk.n + 1, before |-> store, data |-> data, upsert |-> upsert]
    /\ UNCHANGED <<now, trackerVars, calls, first_wait, points_wait, checked, queried, retryVars,
                   issued, docVars, mode, pc, run, how1, store1, dataset, cursor, response, persisted, all403,
                   soVars>>

InitBulk ==
    /\ now = T0
    /\ TrackerInit
    /\ HistInit
    /\ DocIdle
    /\ RetryIdle
    /\ CrawlIdle

NextBulk == \E data \in Batches, upsert \in BOOLEAN : UpdateBulkCall(data, upsert)

SpecBulk == InitBulk /\ [][NextBulk]_vars

\* the record a batch writes last under key k
LastWritten(data, k) ==
    LET js == {j \in 1..Len(data) : data[j][BulkKey] = k}
    IN data[CHOOSE j \in js : \A g \in js : g <= j]

\* C18: after update_bulk(key_field, records, upsert=true) the stored record
\* of every key of the batch has exactly the fields of the record just
\* written under that key: a field the previously stored record had and the
\* new record lacks is gone.
C18_ReplacesOtherFields ==
    (bulk.n > 0 /\ bulk.upsert) =>
        \A j \in 1..Len(bulk.data) :
            LET k == bulk.data[j][BulkKey]
                hits == {h \in 1..Len(store) : Matches(store[h], BulkKey, k)}
            IN /\ hits # {}
               /\ \A h \in hits : DOMAIN store[h] = DOMAIN LastWritten(bulk.data, k)

\* the orders a batch of n records can be written in
Orders(n) == {p \in [1..n -> 1..n] : \A a, b \in 1..n : p[a] = p[b] => a = b}

Reordered(data, p) == [j \in 1..Len(data) |-> data[p[j]]]

\* two collections hold the same documents, each as often
SameDocuments(c1, c2) ==
    \A d \in {c1[j] : j \in 1..Len(c1)} \cup {c2[j] : j \in 1..Len(c2)} :
        Cardinality({j \in 1..Len(c1) : c1[j] = d}) = Cardinality({j \in 1..Len(c2) : c2[j] = d})

\* C19: the order of the records of one update_bulk batch is irrelevant:
\* every permutation of the batch, applied to the same collection, leaves
\* the same documents, also when two records of the batch share the key.
C19_OrderIrrelevant ==
    bulk.n > 0 =>
        \A p \in Orders(Len(bulk.data)) :
            SameDocuments(UpdateBulk(bulk.before, BulkKey, Reordered(bulk.data, p), bulk.upsert),
                          store)

\* ------------------------------------------------------------------
\* scripts/fetch_github_repos_links.py: GitHubReposLinkFetcher
\* ------------------------------------------------------------------
MaxPages == 2          \* pages of the remote dataset
MaxRuns == 2           \* runs of the script over one collection
MaxRetries == 2        \* the crawler's max_retries

GH_INDEX_KEY == "full_name"
GH_PARSE_KEYS == {"full_name", "id"}
FIRST_TIME_DELTA == 5
POINTS_TIME_DELTA == 2

\* One repository object of the API: the parsed keys and a field the
\* crawler does not keep.
Repo(name, id) == [f \in {"full_name", "id", "owner"} |->
                     IF f = "full_name" THEN name ELSE IF f = "id" THEN id ELSE 0]

\* The datasets tried: distinct names page by page; a name that recurs on
\* the next page with another id; one name listed twice on a page.
Shapes == {"distinct", "overlap", "twice"}
PageOf(shape, p) ==
    IF shape = "distinct" THEN <<Repo(p, 1)>>
    ELSE IF shape = "overlap" THEN <<Repo(p, 1), Repo(p + 1, 2)>>
    ELSE <<Repo(p, 1), Repo(p, 2)>>
Dataset(shape, n) == [p \in 1..n |-> PageOf(shape, p)]

\* "next" in response.links
HasNext(resp) == resp.page < Len(dataset)

\* [{key: repo[key] for key in self._parse_keys} for repo in data]
InsertData(data, parse_keys) == [k \in 1..Len(data) |-> [f \in parse_keys |-> data[k][f]]]

\* The effect of self._check_rate_limits(response, request_types) for the
\* object i, called at time t: apply_first_rate_limit(response, 5.0), then
\* apply_points_rate_limit(request_types, 2.0) at the time t1 the first call
\* returns.  raised: a time.sleep call got a negative argument and raised
\* ValueError; updated: _update_points_rate_limit ran (it did not when the
\* first call raised).
CheckRateLimits(i, remaining, reset, request_types, t) ==
    LET fs == FirstLimitSleep(remaining, reset, t, FIRST_TIME_DELTA)
        t1 == IF fs.sleeps THEN t + fs.d ELSE t
        w == UpdatedWindow(i, request_types, t1)
        pd == PointsLimitTimeToWait(Head(w.t), t1) + POINTS_TIME_DELTA
        psleeps == IsPointsLimitExceeded(w.total)
    IN IF fs.sleeps /\ SleepRaises(fs.d)
       THEN [raised |-> TRUE, updated |-> FALSE, now |-> t, p |-> points, t |-> timestamps,
             total |-> total_points[i]]
       ELSE IF psleeps /\ SleepRaises(pd)
       THEN [raised |-> TRUE, updated |-> TRUE, now |-> t1, p |-> w.p, t |-> w.t,
             total |-> w.total]
       ELSE [raised |-> FALSE, updated |-> TRUE, now |-> IF psleeps THEN t1 + pd ELSE t1,
             p |-> w.p, t |-> w.t, total |-> w.total]

Self == 1

\* ------------------------------------------------------------------
\* _check_rate_limits on its own: one fetcher object, responses and request
\* lists of any kind
\* ------------------------------------------------------------------
MaxChecks == 2         \* _check_rate_limits calls in one behaviour

\* <<X-RateLimit-Remaining, X-RateLimit-Reset - time of the call>>
CheckHeaders == {<<5, 7>>, <<0, 10>>, <<0, 0>>, <<0, -20>>}
CheckDeltas == {0, 30, 48, 60}

\* self._check_rate_limits(response, request_types), dt seconds after the
\* previous call returned.  w0 is the window the request's cost gives when
\* recorded at the time of the call; c is what the call does.
CheckRateLimitsCall(i, remaining, off, request_types, dt) ==
    /\ checked.n < MaxChecks
    /\ \E c \in {CheckRateLimits(i, remaining, now + dt + off, request_types, now + dt)} :
         \E w0 \in {UpdatedWindow(i, request_types, now + dt)} :
            /\ queries_remaining' = [queries_remaining EXCEPT ![i] = remaining]
            /\ reset_timestemp' = [reset_timestemp EXCEPT ![i] = now + dt + off]
            /\ points' = c.p
            /\ timestamps' = c.t
            /\ total_points' = [total_points EXCEPT ![i] = c.total]
            /\ now' = c.now
            /\ calls' = IF c.updated
                        THEN Append(calls, [cost |-> c.p[Len(c.p)], at |-> c.t[Len(c.t)], by |-> i])
                        ELSE calls
            /\ checked' = [n |-> checked.n + 1,
                           at |-> now + dt,
                           remaining |-> remaining,
                           reset |-> now + dt + off,
                           total0 |-> w0.total,
                           oldest0 |-> Head(w0.t),
                           slept |-> c.now - (now + dt),
                           raised |-> c.raised]
            /\ UNCHANGED <<first_wait, points_wait, queried, bulk, issued, docVars, retryVars, crawlVars>>

InitCheck ==
    /\ now = T0
    /\ TrackerInit
    /\ HistInit
    /\ DocIdle
    /\ RetryIdle
    /\ CrawlIdle

NextCheck ==
    \E h \in CheckHeaders, request_types \in ApplyTypeLists, dt \in CheckDeltas :
        CheckRateLimitsCall(Self, h[1], h[2], request_types, dt)

SpecCheck == InitCheck /\ [][NextCheck]_vars

\* the waits of the tracker at the time of the last _check_rate_limits call,
\* with the response and the cost of the request recorded
PrimaryWaitAtCheck ==
    IF checked.remaining = 0 THEN Max(0, checked.reset - checked.at) ELSE 0
PointsWaitAtCheck ==
    IF checked.total0 > POINTS_RATE_LIMIT
    THEN Max(0, WINDOW - (checked.at - checked.oldest0))
    ELSE 0

\* C13: when the primary wait or the points wait is greater than 0 after a
\* response, the crawler sleeps max(primary_wait, points_wait) plus one
\* safety margin (5 s or 2 s) before the next request, not the sum of the
\* waits and not two margins; when both waits are 0 it does not sleep.
C13_SleepsMaxPlusMargin ==
    checked.n > 0 =>
        /\ ~checked.raised
        /\ IF PrimaryWaitAtCheck > 0 \/ PointsWaitAtCheck > 0
           THEN checked.slept \in {Max(PrimaryWaitAtCheck, PointsWaitAtCheck) + FIRST_TIME_DELTA,
                                   Max(PrimaryWaitAtCheck, PointsWaitAtCheck) + POINTS_TIME_DELTA}
           ELSE checked.slept = 0

\* ------------------------------------------------------------------
\* fetch_repos
\* ------------------------------------------------------------------
\* the headers of the responses tried: <<X-RateLimit-Remaining, X-RateLimit-Reset - now>>
OkHeaders == {<<5, 7>>, <<0, 7>>, <<0, -20>>}
ForbiddenHeaders == {<<0, 7>>, <<5, 7>>}

\* requests.get sent a request at time t; recorded: the handler handed it to
\* _update_points_rate_limit before _safe_request went on
Issue(h, t, recorded) ==
    [times |-> Append(h.times, t),
     accounted |-> IF recorded THEN h.accounted + 1 ELSE h.accounted]

\* An attempt of _get_request fails with an Exception that is not a 403
\* (or a 403 without rate-limit headers, whose handler dies with KeyError):
\* retry_count += 1, sleep retry_delay.
GHAttemptFails(kind) ==
    /\ mode = "gh" /\ pc = "request"
    /\ LoopTest(retry_count, max_retries)
    /\ retry_count' = retry_count + 1
    /\ now' = now + RETRY_DELAY
    /\ all403' = (all403 /\ kind = "forbidden_no_headers")
    /\ issued' = IF kind = "network_error" THEN issued ELSE Issue(issued, now, FALSE)
    /\ UNCHANGED <<trackerVars, calls, first_wait, points_wait, checked, queried, bulk, docVars,
                   sr_pc, max_retries, sr_hist, sr_sleeps, sr_result,
                   mode, pc, run, how1, store1, store, dataset, cursor, response, persisted, soVars>>

\* _handle_get_response on a 403: _check_rate_limits, then raise
\* Exception("Bad status code."), which _safe_request counts as a failed
\* attempt like any other.
GHAttemptForbidden(remaining, off) ==
    LET c == CheckRateLimits(Self, remaining, now + off, <<"get">>, now)
    IN /\ mode = "gh" /\ pc = "request"
       /\ LoopTest(retry_count, max_retries)
       /\ queries_remaining' = [queries_remaining EXCEPT ![Self] = remaining]
       /\ reset_timestemp' = [reset_timestemp EXCEPT ![Self] = now + off]
       /\ points' = c.p
       /\ timestamps' = c.t
       /\ total_points' = [total_points EXCEPT ![Self] = c.total]
       /\ retry_count' = retry_count + 1
       /\ now' = c.now + RETRY_DELAY
       /\ issued' = Issue(issued, now, c.updated)
       /\ UNCHANGED <<calls, first_wait, points_wait, checked, queried, bulk, docVars, sr_pc, max_retries, sr_hist, sr_sleeps, sr_result, crawlVars>>

\* An attempt returns 200 with valid data: _get_request returns
\* (response, data).
GHAttemptOk(remaining, off) ==
    /\ mode = "gh" /\ pc = "request"
    /\ LoopTest(retry_count, max_retries)
    /\ response' = [page |-> cursor, remaining |-> remaining, reset |-> now + off,
                     backoff |-> NONE]
    /\ pc' = "persist"
    /\ issued' = Issue(issued, now, FALSE)
    /\ UNCHANGED <<now, trackerVars, calls, first_wait, points_wait, checked, queried, bulk, docVars, retryVars,
                   mode, run, how1, store1, store, dataset, cursor, persisted, all403, soVars>>

\* _get_request returned None: log "Stop fetching", return
GHRequestExhausted ==
    /\ mode = "gh" /\ pc = "request"
    /\ ~LoopTest(retry_count, max_retries)
    /\ pc' = "failed"
    /\ UNCHANGED <<now, trackerVars, histVars, docVars, retryVars,
                   mode, run, how1, store1, store, dataset, cursor, response, persisted, all403, soVars>>

\* the step after a successful request, with the persist step left out
GHPersistSkipped ==
    /\ mode = "gh" /\ pc = "persist"
    /\ pc' = "check"
    /\ UNCHANGED <<now, trackerVars, histVars, docVars, retryVars,
                   mode, run, how1, store1, store, dataset, cursor, response, persisted, all403, soVars>>

\* self._update_db_with_response_data(data)
GHPersist ==
    /\ mode = "gh" /\ pc = "persist"
    /\ store' = UpdateBulk(store, GH_INDEX_KEY,
                           InsertData(dataset[response.page], GH_PARSE_KEYS), TRUE)
    /\ persisted' = persisted \cup {response.page}
    /\ pc' = "check"
    /\ UNCHANGED <<now, trackerVars, histVars, docVars, retryVars,
                   mode, run, how1, store1, dataset, cursor, response, all403, soVars>>

\* bulk_write raises (the database is unreachable): nothing catches it
GHPersistRaises ==
    /\ mode = "gh" /\ pc = "persist"
    /\ pc' = "crashed"
    /\ UNCHANGED <<now, trackerVars, histVars, docVars, retryVars,
                   mode, run, how1, store1, store, dataset, cursor, response, persisted, all403, soVars>>

\* self._check_rate_limits(response, ["get"]) after the page is stored; a
\* ValueError of time.sleep ends fetch_repos.
GHCheck ==
    LET c == CheckRateLimits(Self, response.remaining, response.reset, <<"get">>, now)
    IN /\ mode = "gh" /\ pc = "check"
       /\ queries_remaining' = [queries_remaining EXCEPT ![Self] = response.remaining]
       /\ reset_timestemp' = [reset_timestemp EXCEPT ![Self] = response.reset]
       /\ points' = c.p
       /\ timestamps' = c.t
       /\ total_points' = [total_points EXCEPT ![Self] = c.total]
       /\ now' = c.now
       /\ pc' = IF c.raised THEN "crashed" ELSE "advance"
       /\ issued' = IF c.updated THEN [issued EXCEPT !.accounted = @ + 1] ELSE issued
       /\ UNCHANGED <<calls, first_wait, points_wait, checked, queried, bulk, docVars, retryVars,
                      mode, run, how1, store1, store, dataset, cursor, response, persisted, all403, soVars>>

\* the head of the while loop: return when the response has no next link,
\* else read the next URL and call _get_request on it
GHAdvance ==
    /\ mode = "gh" /\ pc = "advance"
    /\ IF HasNext(response)
       THEN /\ cursor' = response.page + 1
            /\ pc' = "request"
            /\ retry_count' = 0
            /\ all403' = TRUE
       ELSE /\ pc' = "done"
            /\ UNCHANGED <<cursor, retry_count, all403>>
    /\ UNCHANGED <<now, trackerVars, histVars, docVars, sr_pc, max_retries, sr_hist, sr_sleeps, sr_result,
                   mode, run, how1, store1, store, dataset, response, persisted, soVars>>

Terminal == {"done", "failed", "crashed", "interrupted"}

\* the process is killed
GHInterrupt ==
    /\ mode = "gh" /\ pc \in {"request", "persist", "check", "advance"}
    /\ pc' = "interrupted"
    /\ how1' = IF run = 1 THEN "interrupted_at_" \o pc ELSE how1
    /\ UNCHANGED <<now, trackerVars, histVars, docVars, retryVars,
                   mode, run, store1, store, dataset, cursor, response, persisted, all403, soVars>>

\* The script is started again on the same collection and the same remote
\* dataset: a new process with a new fetcher object and fresh class
\* attributes, starting from the first page.  Only differences to the clock
\* enter the run, so the clock is read as T0 again.
GHRestart ==
    /\ mode = "gh" /\ pc \in Terminal
    /\ run < MaxRuns
    /\ run' = run + 1
    /\ how1' = IF run = 1 /\ pc # "interrupted" THEN pc ELSE how1
    /\ store1' = IF run = 1 THEN store ELSE store1
    /\ pc' = "request"
    /\ cursor' = 1
    /\ response' = NoResponse
    /\ persisted' = {}
    /\ all403' = TRUE
    /\ retry_count' = 0
    /\ now' = T0
    /\ queries_remaining' = [queries_remaining EXCEPT ![Self] = 0]
    /\ reset_timestemp' = [reset_timestemp EXCEPT ![Self] = 0]
    /\ points' = <<>>
    /\ timestamps' = <<>>
    /\ total_points' = [total_points EXCEPT ![Self] = 0]
    /\ issued' = NoIssued
    /\ UNCHANGED <<calls, first_wait, points_wait, checked, queried, bulk, docVars, sr_pc, max_retries, sr_hist, sr_sleeps, sr_result,
                   mode, store, dataset, soVars>>

\* fetcher = GitHubReposLinkFetcher(db); fetcher.fetch_repos(token), up to
\* the first _get_request
InitGH ==
    /\ mode = "gh"
    /\ pc = "request"
    /\ run = 1
    /\ how1 = "none"
    /\ store1 = <<>>
    /\ store = <<>>
    /\ \E shape \in Shapes, n \in 1..MaxPages : dataset = Dataset(shape, n)
    /\ cursor = 1
    /\ response = NoResponse
    /\ persisted = {}
    /\ all403 = TRUE
    /\ sr_pc = "idle"
    /\ max_retries = MaxRetries
    /\ retry_count = 0
    /\ sr_hist = <<>>
    /\ sr_sleeps = 0
    /\ sr_result = "unset"
    /\ SOIdle

NextGH ==
    \/ \E kind \in Failures \cup {"forbidden_no_headers"} : GHAttemptFails(kind)
    \/ \E h \in ForbiddenHeaders : GHAttemptForbidden(h[1], h[2])
    \/ \E h \in OkHeaders : GHAttemptOk(h[1], h[2])
    \/ GHRequestExhausted
    \/ GHPersist
    \/ GHPersistRaises
    \/ GHCheck
    \/ GHAdvance
    \/ GHInterrupt
    \/ GHRestart

\* ------------------------------------------------------------------
\* scripts/fetch_stackoverflow_questions.py: Worker,
\* StackOverflowQuestionsFetcher
\* ------------------------------------------------------------------
NumWorkers == 2        \* workers handed to the fetcher
MaxWaits == 2          \* _wait_for_next_request calls in one run

DAY_IN_SEC == 86400
EXTRA_WAIT_TIME_IN_SEC == 10
BACKOFF_EXTRA_WAIT_TIME_IN_SEC == 2

Workers == 1..NumWorkers
SO_INDEX_KEY == "question_id"
SO_PARSE_KEYS == {"question_id", "title"}

\* One question of the API: the parsed keys and a field the crawler drops.
Question(qid, title) == [f \in {"question_id", "title", "owner"} |->
                           IF f = "question_id" THEN qid ELSE IF f = "title" THEN title ELSE 0]
SOShapes == {"overlap"}
SOPageOf(shape, p) ==
    IF shape = "distinct" THEN <<Question(p, 1)>>
    ELSE <<Question(p, 1), Question(p + 1, 2)>>
SODataset(shape, n) == [p \in 1..n |-> SOPageOf(shape, p)]

\* Worker.set_backoff_time(backoff_time) at time t: the new backoff_end_time
BackoffEnd(t, backoff_time) == t + backoff_time + BACKOFF_EXTRA_WAIT_TIME_IN_SEC

\* Worker.__init__
NewWorker(app_key) ==
    [init_time |-> NONE, restart_time |-> NONE, quota_remaining |-> NONE,
     backoff_end_time |-> NONE, app_key |-> app_key]

\* What self._get_request does for one call: it returns (response, data)
\* after `fails` failed attempts, fails < max_retries, or it returns None
\* after max_retries failed attempts; forb tells whether none, some or all
\* of the failed attempts were 403 responses; quota and backoff are the
\* quota_remaining and the backoff of the returned payload.
QuotaValues == {0, 2}
BackoffValues == {NONE, 3}
GetOutcomes(maxr) ==
    {[fails |-> 0, forb |-> "none", quota |-> q, backoff |-> b] :
        q \in QuotaValues, b \in BackoffValues}
    \cup {[fails |-> k, forb |-> "all", quota |-> 2, backoff |-> NONE] : k \in 1..(maxr - 1)}
    \cup {[fails |-> maxr, forb |-> f, quota |-> NONE, backoff |-> NONE] :
            f \in IF maxr >= 2 THEN {"none", "some", "all"}
                  ELSE IF maxr = 1 THEN {"none", "all"} ELSE {"none"}}

\* the outcomes tried for the requests of _init_run and reset_worker, which
\* drop the payload: returned at once (one of the payloads with a backoff),
\* or None
BootOutcomes(maxr) ==
    {out \in GetOutcomes(maxr) :
        /\ out.fails \in {0, maxr}
        /\ out.forb # "some"
        /\ out.backoff # NONE => out.quota # 0}

Returned(out, maxr) == out.fails < maxr

\* get_request that starts a new init_time on every call
WorkerGetRequestAlwaysInit(w, t, out, maxr) ==
    LET w1 == [w EXCEPT !.init_time = t,
                        !.restart_time = t + DAY_IN_SEC + EXTRA_WAIT_TIME_IN_SEC]
        w2 == IF out.forb # "none" THEN [w1 EXCEPT !.quota_remaining = 0] ELSE w1
        w3 == IF Returned(out, maxr) THEN [w2 EXCEPT !.quota_remaining = out.quota] ELSE w2
    IN [w |-> w3, now |-> t + out.fails * RETRY_DELAY]

\* Worker.get_request(url, params) at time t for the worker record w:
\* _init_start_time when init_time is None; _handle_response sets
\* quota_remaining = 0 on a 403; on a returned payload quota_remaining is
\* the payload's.  Every failed attempt sleeps retry_delay.
WorkerGetRequest(w, t, out, maxr) ==
    LET w1 == IF w.init_time = NONE
              THEN [w EXCEPT !.init_time = t,
                             !.restart_time = t + DAY_IN_SEC + EXTRA_WAIT_TIME_IN_SEC]
              ELSE w
        w2 == IF out.forb # "none" THEN [w1 EXCEPT !.quota_remaining = 0] ELSE w1
        w3 == IF Returned(out, maxr) THEN [w2 EXCEPT !.quota_remaining = out.quota] ELSE w2
    IN [w |-> w3, now |-> t + out.fails * RETRY_DELAY]

\* params["key"] = self._app_key, when the worker has a key
KeyAfter(key, w) == IF w.app_key # "none" THEN w.app_key ELSE key

\* Worker.reset_worker(url, params)
ResetWorker(w, t, out, maxr) ==
    WorkerGetRequest([w EXCEPT !.init_time = NONE, !.restart_time = NONE,
                               !.quota_remaining = NONE], t, out, maxr)

\* _maybe_reset_workers from worker k on: st = [ws, now, key, rq] are the
\* workers, the clock, PARAMS["key"] and the quotas the reset requests
\* returned; outs[k] is what the request of worker k's reset does, if it is
\* reset.
RECURSIVE MaybeResetFrom(_, _, _, _)
MaybeResetFrom(k, st, outs, maxr) ==
    IF k > Len(st.ws) THEN st
    ELSE LET w == st.ws[k]
             due == w.restart_time # NONE /\ w.restart_time < st.now
             r == IF due THEN ResetWorker(w, st.now, outs[k], maxr)
                         ELSE [w |-> w, now |-> st.now]
             key == IF due THEN KeyAfter(st.key, w) ELSE st.key
             wb == IF r.w.backoff_end_time # NONE /\ r.w.backoff_end_time < r.now
                   THEN [r.w EXCEPT !.backoff_end_time = NONE]
                   ELSE r.w
             rq == IF due
                   THEN [st.rq EXCEPT ![k] = IF Returned(outs[k], maxr) THEN outs[k].quota
                                             ELSE NONE]
                   ELSE st.rq
         IN MaybeResetFrom(k + 1, [ws |-> [st.ws EXCEPT ![k] = wb], now |-> r.now, key |-> key,
                                   rq |-> rq], outs, maxr)

\* the quotas with the backoff test left out
EffectiveQuotasNoBackoff(ws) == [k \in 1..Len(ws) |-> ws[k].quota_remaining]

\* _sample_worker_id: the quotas, with 0 for every worker whose
\* backoff_end_time is set
EffectiveQuotas(ws) ==
    [k \in 1..Len(ws) |-> IF ws[k].backoff_end_time # NONE THEN 0 ELSE ws[k].quota_remaining]

\* any(quotas): None and 0 are both false
AnyQuota(qs) == \E k \in 1..Len(qs) : qs[k] # NONE /\ qs[k] # 0

\* np.sum(quotas) and the division raise TypeError when a quota is None
SampleRaises(qs) == AnyQuota(qs) /\ \E k \in 1..Len(qs) : qs[k] = NONE

\* the ids np.random.choice can return: those of positive probability
SampleSupport(qs) == {k \in 1..Len(qs) : qs[k] > 0}

\* `worker.backoff_end_time or 0 - cur_time`
BackoffOrMinusNow(w, cur_time) ==
    IF w.backoff_end_time # NONE /\ w.backoff_end_time # 0
    THEN w.backoff_end_time
    ELSE 0 - cur_time

\* w_time of one worker in _wait_for_next_request
WTime(w, cur_time) ==
    IF w.quota_remaining = 0
    THEN Max(0, Max(w.restart_time - cur_time, BackoffOrMinusNow(w, cur_time)))
    ELSE Max(0, BackoffOrMinusNow(w, cur_time))

\* min(wait_times)
RECURSIVE MinOf(_)
MinOf(xs) == IF Len(xs) = 1 THEN xs[1] ELSE Min(Head(xs), MinOf(Tail(xs)))
WaitTime(ws, cur_time) == MinOf([k \in 1..Len(ws) |-> WTime(ws[k], cur_time)])

\* What the requests of one _maybe_reset_workers call can do: one outcome
\* for every worker whose restart_time can have passed when its turn comes.
MayBeDue(w) ==
    w.restart_time # NONE /\ w.restart_time < now + Len(workers) * max_retries * RETRY_DELAY
ResetOutcomes ==
    {outs \in [Workers -> {out \in BootOutcomes(max_retries) : out.backoff = NONE}] :
        \A k \in Workers : ~MayBeDue(workers[k]) =>
            outs[k] = [fails |-> 0, forb |-> "none", quota |-> 0, backoff |-> NONE]}

soFrame == <<trackerVars, histVars, docVars, retryVars, mode, run, how1, store1, dataset>>

\* _init_run, one worker: worker.get_request(self.URL, self.PARAMS); the
\* result is dropped
SOInitRun(out) ==
    LET r == WorkerGetRequest(workers[wi], now, out, max_retries)
    IN /\ mode = "so" /\ pc = "init"
       /\ workers' = [workers EXCEPT ![wi] = r.w]
       /\ now' = r.now
       /\ class_key' = KeyAfter(class_key, workers[wi])
       /\ boots' = [boots EXCEPT ![wi] = @ + 1]
       /\ boot_failed' = (boot_failed \/ ~Returned(out, max_retries))
       /\ all403' = (out.forb = "all")
       /\ IF wi < Len(workers)
          THEN /\ wi' = wi + 1
               /\ UNCHANGED <<pc, params_key>>
          ELSE /\ wi' = 0
               /\ pc' = "reset"
               /\ params_key' = class_key'
       /\ backoff_due' = IF Returned(out, max_retries) /\ out.backoff # NONE
                         THEN [backoff_due EXCEPT ![wi] = BackoffEnd(r.now, out.backoff)]
                         ELSE backoff_due
       /\ UNCHANGED <<soFrame, store, cursor, response, persisted, selected, slept, page_requests,
                      reset_quota>>

\* self._maybe_reset_workers()
SOMaybeResetWorkers(outs) ==
    LET st == MaybeResetFrom(1, [ws |-> workers, now |-> now, key |-> class_key,
                                 rq |-> reset_quota], outs, max_retries)
    IN /\ mode = "so" /\ pc = "reset"
       /\ workers' = st.ws
       /\ now' = st.now
       /\ class_key' = st.key
       /\ reset_quota' = st.rq
       /\ pc' = "sample"
       /\ UNCHANGED <<soFrame, store, cursor, response, persisted, all403, params_key, wi,
                      selected, slept, boots, boot_failed, page_requests, backoff_due>>

\* id_ = self._sample_worker_id(), a worker is drawn
SOSampleWorker(id) ==
    /\ mode = "so" /\ pc = "sample"
    /\ ~SampleRaises(EffectiveQuotas(workers))
    /\ id \in SampleSupport(EffectiveQuotas(workers))
    /\ selected' = id
    /\ pc' = "request"
    /\ UNCHANGED <<now, soFrame, store, cursor, response, persisted, all403, workers, class_key,
                   params_key, wi, slept, boots, boot_failed, page_requests,
                   backoff_due, reset_quota>>

\* _sample_worker_id returns None: the loop goes to _wait_for_next_request
SOSampleNone ==
    /\ mode = "so" /\ pc = "sample"
    /\ ~AnyQuota(EffectiveQuotas(workers))
    /\ selected' = 0
    /\ pc' = "wait"
    /\ UNCHANGED <<now, soFrame, store, cursor, response, persisted, all403, workers, class_key,
                   params_key, wi, slept, boots, boot_failed, page_requests,
                   backoff_due, reset_quota>>

\* _sample_worker_id dies with TypeError on a None quota next to a positive one
SOSampleRaises ==
    /\ mode = "so" /\ pc = "sample"
    /\ SampleRaises(EffectiveQuotas(workers))
    /\ selected' = 0
    /\ pc' = "crashed"
    /\ UNCHANGED <<now, soFrame, store, cursor, response, persisted, all403, workers, class_key,
                   params_key, wi, slept, boots, boot_failed, page_requests,
                   backoff_due, reset_quota>>

\* self._wait_for_next_request(); continue.  The clock read after the
\* sleep is late by over seconds.
SOWaitForNextRequest(over) ==
    LET d == WaitTime(workers, now)
    IN /\ mode = "so" /\ pc = "wait"
       /\ slept.n < MaxWaits
       /\ slept' = [n |-> slept.n + 1, at |-> now, d |-> d, ws |-> workers]
       /\ now' = now + d + over
       /\ pc' = "reset"
       /\ UNCHANGED <<soFrame, store, cursor, response, persisted, all403, workers, class_key,
                      params_key, wi, selected, boots, boot_failed, page_requests,
                   backoff_due, reset_quota>>

\* result = self._workers[id_].get_request(self.URL, params); None ends
\* fetch_questions
SORequest(out) ==
    LET r == WorkerGetRequest(workers[selected], now, out, max_retries)
    IN /\ mode = "so" /\ pc = "request"
       /\ workers' = [workers EXCEPT ![selected] = r.w]
       /\ now' = r.now
       /\ params_key' = KeyAfter(params_key, workers[selected])
       /\ page_requests' = page_requests + 1
       /\ all403' = (out.forb = "all")
       /\ IF Returned(out, max_retries)
          THEN /\ response' = [page |-> cursor, remaining |-> out.quota, reset |-> 0,
                                backoff |-> out.backoff]
               /\ pc' = "persist"
          ELSE /\ pc' = "failed"
               /\ UNCHANGED response
       /\ UNCHANGED <<soFrame, store, cursor, persisted, class_key, wi, selected, slept,
                      boots, boot_failed, backoff_due, reset_quota>>

\* set_backoff_time when the payload has a backoff, then
\* self._update_db_with_response_data(data)
SOPersist ==
    /\ mode = "so" /\ pc = "persist"
    /\ workers' = IF response.backoff # NONE
                  THEN [workers EXCEPT ![selected].backoff_end_time =
                            BackoffEnd(now, response.backoff)]
                  ELSE workers
    /\ backoff_due' = IF response.backoff # NONE
                      THEN [backoff_due EXCEPT ![selected] = BackoffEnd(now, response.backoff)]
                      ELSE backoff_due
    /\ store' = UpdateBulk(store, SO_INDEX_KEY,
                           InsertData(dataset[response.page], SO_PARSE_KEYS), TRUE)
    /\ persisted' = persisted \cup {response.page}
    /\ pc' = "advance"
    /\ UNCHANGED <<now, soFrame, cursor, response, all403, class_key, params_key, wi, selected,
                   slept, boots, boot_failed, page_requests, reset_quota>>

\* return when meta["has_more"] is false, else params["page"] += 1
SOAdvance ==
    /\ mode = "so" /\ pc = "advance"
    /\ IF HasNext(response)
       THEN cursor' = cursor + 1 /\ pc' = "reset"
       ELSE cursor' = cursor /\ pc' = "done"
    /\ UNCHANGED <<now, soFrame, store, response, persisted, all403, workers, class_key,
                   params_key, wi, selected, slept, boots, boot_failed, page_requests,
                   backoff_due, reset_quota>>

\* the credentials tried: every worker has its own app key, or only the
\* first worker has one
AppKey(k) == IF k = 1 THEN "key1" ELSE IF k = 2 THEN "key2" ELSE "key3"
KeyConfigs == {[k \in Workers |-> AppKey(k)],
               [k \in Workers |-> IF k = 1 THEN AppKey(k) ELSE "none"]}

\* fetcher = StackOverflowQuestionsFetcher(db, workers);
\* fetcher.fetch_questions(), up to _init_run
InitSO ==
    /\ mode = "so"
    /\ pc = "init"
    /\ run = 1
    /\ how1 = "none"
    /\ store1 = <<>>
    /\ store = <<>>
    /\ \E shape \in SOShapes, n \in 1..MaxPages : dataset = SODataset(shape, n)
    /\ cursor = 1
    /\ response = NoResponse
    /\ persisted = {}
    /\ all403 = FALSE
    /\ sr_pc = "idle"
    /\ max_retries = MaxRetries
    /\ retry_count = 0
    /\ sr_hist = <<>>
    /\ sr_sleeps = 0
    /\ sr_result = "unset"
    /\ \E keys \in KeyConfigs : workers = [k \in Workers |-> NewWorker(keys[k])]
    /\ class_key = "none"
    /\ params_key = "none"
    /\ wi = 1
    /\ selected = 0
    /\ slept = NoSleep
    /\ boots = [k \in Workers |-> 0]
    /\ boot_failed = FALSE
    /\ page_requests = 0
    /\ backoff_due = [k \in Workers |-> NONE]
    /\ reset_quota = [k \in Workers |-> NONE]

NextSO ==
    \/ \E out \in BootOutcomes(max_retries) : SOInitRun(out)
    \/ (mode = "so" /\ \E outs \in ResetOutcomes : SOMaybeResetWorkers(outs))
    \/ \E id \in Workers : SOSampleWorker(id)
    \/ SOSampleNone
    \/ SOSampleRaises
    \/ \E over \in {0, 1} : SOWaitForNextRequest(over)
    \/ \E out \in GetOutcomes(max_retries) : SORequest(out)
    \/ SOPersist
    \/ SOAdvance

Init ==
    /\ now = T0
    /\ TrackerInit
    /\ HistInit
    /\ DocIdle
    /\ (InitGH \/ InitSO)

Next == NextGH \/ NextSO

Spec == Init /\ [][Next]_vars

\* ------------------------------------------------------------------
\* Properties of the crawlers
\* ------------------------------------------------------------------
IndexKey == IF mode = "gh" THEN GH_INDEX_KEY ELSE SO_INDEX_KEY
ParseKeys == IF mode = "gh" THEN GH_PARSE_KEYS ELSE SO_PARSE_KEYS

\* the documents of coll whose index key is k
DocsOf(coll, k) == {j \in 1..Len(coll) : Matches(coll[j], IndexKey, k)}

\* the records of the dataset, page after page
RECURSIVE Flatten(_)
Flatten(pages) == IF pages = <<>> THEN <<>> ELSE Head(pages) \o Flatten(Tail(pages))
AllRecords == Flatten(dataset)
DatasetKeys == {AllRecords[j][IndexKey] : j \in 1..Len(AllRecords)}

\* the record the API lists last under key k, cut to the parsed keys
LastRecord(k) ==
    LET js == {j \in 1..Len(AllRecords) : AllRecords[j][IndexKey] = k}
        j == CHOOSE a \in js : \A b \in js : b <= a
    IN [f \in ParseKeys |-> AllRecords[j][f]]

NoDuplicate == \A k \in DatasetKeys : Cardinality(DocsOf(store, k)) <= 1
NoMissing == \A k \in DatasetKeys : \E j \in DocsOf(store, k) : store[j] = LastRecord(k)

\* every record of page p is in the collection under its key
PageStored(p) ==
    \A j \in 1..Len(dataset[p]) : DocsOf(store, dataset[p][j][IndexKey]) # {}

\* C1: in both crawlers the records of a page are handed to update_bulk, and
\* the call has returned, before the cursor moves past the page and the
\* next page is requested: every page before the cursor has been persisted.
C1_PersistBeforeAdvance ==
    mode \in {"gh", "so"} =>
        \A p \in 1..(cursor - 1) : p \in persisted /\ PageStored(p)

\* fetch_questions asks a worker for page 2 after page 1 was stored
C1_Witness ==
    /\ mode = "so" /\ pc = "request"
    /\ cursor = 2 /\ persisted = {1} /\ PageStored(1)

\* C4: fetch_repos run twice to completion over the same dataset leaves
\* exactly one document per full_name, and the collection is what it was
\* after the first run.
C4_TwoRunsIdempotent ==
    (mode = "gh" /\ run >= 2 /\ how1 = "done" /\ pc = "done") =>
        /\ store = store1
        /\ \A k \in DatasetKeys : Cardinality(DocsOf(store, k)) = 1
        /\ Len(store) = Cardinality(DatasetKeys)

\* both runs went over two pages that share a full_name
C4_Witness ==
    /\ mode = "gh" /\ run = 2 /\ how1 = "done" /\ pc = "done"
    /\ Len(dataset) = 2 /\ persisted = {1, 2}
    /\ Len(AllRecords) > Cardinality(DatasetKeys)

\* C5: a run interrupted between persisting a page and requesting the next,
\* followed by a run from page 1 to completion, leaves no duplicate and no
\* missing record.
C5_InterruptedThenRerun ==
    (mode = "gh" /\ run >= 2 /\ pc = "done"
        /\ how1 \in {"interrupted_at_check", "interrupted_at_advance", "interrupted_at_request"}) =>
        NoDuplicate /\ NoMissing

\* the first run was killed after page 1 was stored and before page 2 was
\* requested; the second run completed
C5_Witness ==
    /\ mode = "gh" /\ run = 2 /\ pc = "done"
    /\ how1 = "interrupted_at_check"
    /\ Len(dataset) = 2
    /\ store1 # <<>> /\ Len(store1) < Len(store)

\* a backoff that has not run out at time t
InBackoff(w, t) == w.backoff_end_time # NONE /\ w.backoff_end_time > t

\* every worker is out of quota (0, or None after a failed bootstrap) or in
\* backoff
AllQuotasZero == \A k \in 1..Len(workers) :
    workers[k].quota_remaining <= 0 \/ InBackoff(workers[k], now)

\* C6: the worker chosen for a page request has quota_remaining > 0 and is
\* not in backoff; when every effective quota is 0 the step issues no
\* request, sleeps and goes back to re-evaluate the workers.
C6_OnlyEligibleSelected ==
    /\ []((mode = "so" /\ pc = "request") =>
            /\ workers[selected].quota_remaining > 0
            /\ ~InBackoff(workers[selected], now))
    /\ [][(mode = "so" /\ pc = "sample" /\ AllQuotasZero) =>
            (pc' = "wait" /\ page_requests' = page_requests)]_vars
    /\ [][(mode = "so" /\ pc = "wait") =>
            (pc' = "reset" /\ page_requests' = page_requests /\ now' >= now)]_vars

\* a worker is chosen while another one with quota left sits in backoff
C6_Witness ==
    /\ mode = "so" /\ pc = "request"
    /\ \E k \in 1..Len(workers) :
          /\ k # selected
          /\ workers[k].quota_remaining > 0
          /\ InBackoff(workers[k], now)

\* the wait of one worker at time t: until restart_time when it is out of
\* quota, until backoff_end_time when it is in backoff, never below 0
RemainingWait(w, t) ==
    Max(0, Max(IF w.quota_remaining = 0 THEN w.restart_time - t ELSE 0,
               IF w.backoff_end_time # NONE THEN w.backoff_end_time - t ELSE 0))

\* C7: when all effective quotas are 0 the crawler sleeps the minimum over
\* the workers of the worker's remaining wait, computed from the
\* differences restart_time - now and backoff_until - now, floored at 0.
C7_SleepsMinimumWait ==
    slept.n > 0 =>
        slept.d = MinOf([k \in 1..Len(slept.ws) |-> RemainingWait(slept.ws[k], slept.at)])

\* C8: every worker issues exactly one bootstrap request in _init_run, and
\* when one of them fails terminally the run is aborted: no page request is
\* issued afterwards.
C8_BootstrapFailureFatal ==
    mode = "so" =>
        /\ pc # "init" => \A k \in 1..Len(workers) : boots[k] = 1
        /\ boot_failed => (page_requests = 0 /\ pc # "request")

\* C9: a 403 is a rate-limit signal resolved by sleeping, not a failure like
\* the other statuses: no crawl ends because its requests were answered
\* with 403.
C9_ForbiddenNeverAborts ==
    ~(mode \in {"gh", "so"} /\ pc = "failed" /\ max_retries >= 1 /\ all403)

\* the run was ended by an exception of the store's bulk_write
StoreRaised == pc = "crashed" /\ response.page \notin persisted

\* C14: a run of fetch_repos over a finite dataset ends in one of two ways:
\* DONE, exactly when a fetched and persisted page has no next link, or
\* FAILED, exactly when the retrying client has used up its retries for a
\* page, and then the pages persisted before are still in the collection.
\* (A run the operator kills or the store ends with an exception is not
\* counted.)
C14_EndsDoneOrFailed ==
    (mode = "gh" /\ ~StoreRaised) =>
        /\ pc \in Terminal => pc \in {"done", "failed", "interrupted"}
        /\ pc = "done" => (response.page \in persisted /\ ~HasNext(response))
        /\ pc = "failed" =>
              /\ ~LoopTest(retry_count, max_retries)
              /\ \A p \in persisted : PageStored(p)

\* C15: fetch_questions ends only in two ways: after persisting a page
\* whose has_more is false, or when get_request of the chosen worker
\* returns None, and then the page counter stands at the page that failed
\* and the pages persisted before are still in the collection; in every
\* other case it goes on to the next page.
C15_EndsOnLastPageOrFailure ==
    mode = "so" =>
        /\ pc \in Terminal => pc \in {"done", "failed"}
        /\ pc = "done" => (response.page \in persisted /\ ~HasNext(response))
        /\ pc = "failed" =>
              /\ selected \in 1..Len(workers)
              /\ persisted = 1..(cursor - 1)
              /\ \A p \in persisted : PageStored(p)

\* C16: when a response payload carries a backoff of b seconds, the worker
\* that issued the request is in backoff until the time of recording + b + 2:
\* until then its backoff_end_time is that time and it is chosen for no
\* request; when _maybe_reset_workers has run after that time the backoff is
\* cleared, so that the worker's quota alone decides whether it is eligible.
C16_BackoffHonoured ==
    mode = "so" =>
        /\ \A k \in 1..Len(workers) :
              (backoff_due[k] # NONE /\ now <= backoff_due[k]) =>
                  workers[k].backoff_end_time = backoff_due[k]
        /\ pc = "request" =>
              ~(backoff_due[selected] # NONE /\ now < backoff_due[selected])
        /\ pc = "sample" =>
              \A k \in 1..Len(workers) :
                  workers[k].backoff_end_time # NONE => workers[k].backoff_end_time >= now

\* C17: a worker's init_time and restart_time are set when it makes its
\* first request, restart_time = init_time + 24 h + 10 s, and its later
\* requests leave them alone; a worker whose restart_time has passed is
\* re-bootstrapped by _maybe_reset_workers with a request that gives it a
\* new init_time and restart_time and the quota_remaining of the payload it
\* returns; the list of workers stays the same for the whole run.
C17_WorkerWindow ==
    /\ [](mode = "so" =>
            /\ Len(workers) = NumWorkers
            /\ \A k \in 1..Len(workers) :
                  /\ (workers[k].init_time = NONE) = (workers[k].restart_time = NONE)
                  /\ workers[k].init_time # NONE =>
                        workers[k].restart_time =
                            workers[k].init_time + DAY_IN_SEC + EXTRA_WAIT_TIME_IN_SEC)
    /\ [][mode = "so" =>
            \A k \in 1..Len(workers) :
                /\ workers'[k].app_key = workers[k].app_key
                /\ (workers[k].init_time = NONE /\ workers'[k].init_time # NONE) =>
                      (pc = "init" /\ wi = k /\ workers'[k].init_time = now)
                /\ (workers[k].init_time # NONE
                        /\ workers'[k].init_time # workers[k].init_time) =>
                      /\ pc = "reset"
                      /\ workers[k].restart_time < workers'[k].init_time
                      /\ workers'[k].init_time >= now
                      /\ reset_quota'[k] # NONE =>
                            workers'[k].quota_remaining = reset_quota'[k]
                /\ (pc = "reset" /\ workers[k].init_time # NONE
                        /\ workers[k].restart_time < now) =>
                      workers'[k].init_time >= now]_vars

\* a worker was re-bootstrapped more than a day after the start and took
\* the quota of the new payload
C17_Witness ==
    /\ mode = "so"
    /\ \E k \in 1..Len(workers) :
          /\ workers[k].init_time > T0 + DAY_IN_SEC
          /\ reset_quota[k] = 2
          /\ workers[k].quota_remaining = 2

\* ------------------------------------------------------------------
\* core/parsers/__init__.py: get_parser
\* ------------------------------------------------------------------
\* A url is the sequence of its tokens, each a piece of text that the
\* literals of the four patterns either hold whole or not at all, so that
\* matching token by token is matching character by character.
MaxSegments == 4       \* path segments of a url

Schemes == {"https://", "http://"}
Hosts == {<<"github.com">>, <<"stackoverflow.com">>, <<"site", ".", "stackexchange.com">>,
          <<"discuss", ".", "site">>, <<"forum", ".", "site">>,
          <<"discuss", ".", "stackexchange.com">>, <<"site">>}
Segments == {"questions", "issues", "discussions", "t", "123", ""}

\* "/" + segment for every segment; an empty segment adds no token
RECURSIVE PathTokens(_)
PathTokens(segs) ==
    IF segs = <<>> THEN <<>>
    ELSE (IF Head(segs) = "" THEN <<"/">> ELSE <<"/", Head(segs)>>) \o PathTokens(Tail(segs))

Urls ==
    {<<sch>> \o host \o PathTokens(segs) :
        sch \in Schemes, host \in Hosts,
        segs \in UNION {[1..n -> Segments] : n \in 0..MaxSegments}}

\* A pattern is a sequence of items: a literal token, a choice of literal
\* tokens (a|b), or ".+?" (one or more characters, "/" and "." included).
\* "^" and "$" are the two ends of the token sequence.
Lit(t) == [kind |-> "lit", toks |-> {t}]
Alt(ts) == [kind |-> "lit", toks |-> ts]
Some == [kind |-> "some", toks |-> {}]

\* re.match(pattern, url) is not None
RECURSIVE ReMatch(_, _)
ReMatch(pattern, u) ==
    IF pattern = <<>> THEN u = <<>>
    ELSE IF u = <<>> THEN FALSE
    ELSE IF Head(pattern).kind = "lit"
         THEN Head(u) \in Head(pattern).toks /\ ReMatch(Tail(pattern), Tail(u))
         ELSE \E n \in 1..Len(u) : ReMatch(Tail(pattern), SubSeq(u, n + 1, Len(u)))

\* r"^https://(discuss|forum)\..+?/t/.+?/.+?$"
DiscoursePattern ==
    <<Lit("https://"), Alt({"discuss", "forum"}), Lit("."), Some, Lit("/"), Lit("t"), Lit("/"),
      Some, Lit("/"), Some>>
\* r"^https://github\.com/.+?/.+?/issues/.+?$"
GithubIssuePattern ==
    <<Lit("https://"), Lit("github.com"), Lit("/"), Some, Lit("/"), Some, Lit("/"),
      Lit("issues"), Lit("/"), Some>>
\* r"^https://github\.com/.+?/.+?/discussions/.+?$"
GithubDiscussionPattern ==
    <<Lit("https://"), Lit("github.com"), Lit("/"), Some, Lit("/"), Some, Lit("/"),
      Lit("discussions"), Lit("/"), Some>>
\* r"^https://.+?\.stackexchange\.com/questions/.+?/.+?$"
StackexchangeSitePattern ==
    <<Lit("https://"), Some, Lit("."), Lit("stackexchange.com"), Lit("/"), Lit("questions"),
      Lit("/"), Some, Lit("/"), Some>>
\* r"^https://stackoverflow\.com/questions/.+?$"
StackoverflowPattern ==
    <<Lit("https://"), Lit("stackoverflow.com"), Lit("/"), Lit("questions"), Lit("/"), Some>>

DiscourseTest(u) == ReMatch(DiscoursePattern, u)
GithubIssueTest(u) == ReMatch(GithubIssuePattern, u)
GithubDiscussionTest(u) == ReMatch(GithubDiscussionPattern, u)
StackexchangeTest(u) == ReMatch(StackexchangeSitePattern, u) \/ ReMatch(StackoverflowPattern, u)

Test(name, u) ==
    CASE name = "stackexchange" -> StackexchangeTest(u)
      [] name = "github_issue" -> GithubIssueTest(u)
      [] name = "github_discussion" -> GithubDiscussionTest(u)
      [] name = "discourse" -> DiscourseTest(u)

\* the mapping with the discourse rule first
ParserMappingDiscourseFirst == <<"discourse", "stackexchange", "github_issue", "github_discussion">>

\* _parser_mapping: the rules in the order get_parser tries them
ParserMapping == <<"stackexchange", "github_issue", "github_discussion", "discourse">>

\* for test, parser in _parser_mapping: if test(url): return parser;
\* return (None) after the loop
RECURSIVE FirstMatch(_, _)
FirstMatch(mapping, u) ==
    IF mapping = <<>> THEN "None"
    ELSE IF Test(Head(mapping), u) THEN Head(mapping)
    ELSE FirstMatch(Tail(mapping), u)

GetParser ==
    /\ parser = "unset"
    /\ parser' = FirstMatch(ParserMapping, url)
    /\ UNCHANGED <<now, trackerVars, histVars, retryVars, crawlVars, url, parseVars, retrieveVars,
                   cacheVars>>

InitDispatch ==
    /\ now = T0
    /\ TrackerInit
    /\ HistInit
    /\ RetryIdle
    /\ CrawlIdle
    /\ url \in Urls
    /\ parser = "unset"
    /\ ParseIdle
    /\ RetrieveIdle
    /\ CacheIdle

NextDispatch == GetParser

SpecDispatch == InitDispatch /\ [][NextDispatch]_vars

\* https://stackoverflow.com/questions/123/foo, "foo" being any segment
StackoverflowQuestionUrl ==
    <<"https://", "stackoverflow.com", "/", "questions", "/", "123", "/", "t">>

MaxComments == 2       \* timeline-comment containers of a page

Raise(exc) == [kind |-> exc]
Document(doc) == [kind |-> "document", doc |-> doc]

\* md(html): the markdown of an html fragment; a text is a sequence, "" the
\* empty one
Md(html) == <<"md", html>>
EmptyText == <<>>

\* ---- github_issues.py ----
CommentDivs ==
    [author : {"absent", "ann", "bob"}, body : {"absent", "text"},
     time : {"absent", "t1"}, reactions : {"absent", "+1"}]

\* what the <script> of the <react-app> element holds
ReactApps == {"no_react_app", "no_script", "no_payload", "no_issue", "no_timeline", "issue"}

GithubIssuePages ==
    [variant : {"github_issue"}, title : {"absent", "Title"},
     comments : UNION {[1..n -> CommentDivs] : n \in 0..MaxComments},
     react : ReactApps]

\* parse_title
ParseTitle(pg) == IF pg.title = "absent" THEN "Unknown" ELSE pg.title

\* parse_comment: parse_author, parse_timestamp, parse_comment_body,
\* parse_reactions
GithubParseComment(div) ==
    [author |-> IF div.author = "absent" THEN "Unknown" ELSE div.author,
     timestamp |-> IF div.time = "absent" THEN "Unknown Time" ELSE div.time,
     text |-> IF div.body = "absent" THEN EmptyText ELSE Md(div.body),
     reactions |-> IF div.reactions = "absent" THEN {} ELSE {div.reactions}]

\* the issue the script payload describes
ReactIssue ==
    [title |-> "Title",
     question |-> [author |-> "ann", timestamp |-> "t1", text |-> Md("text"), reactions |-> {}],
     answers |-> <<[author |-> "bob", timestamp |-> "t1", text |-> Md("text"),
                    reactions |-> {"+1"}]>>]

\* parse_github_issue_from_react_script
ParseGithubIssueFromReactScript(pg) ==
    IF pg.react = "issue"
    THEN [kind |-> "document", path |-> "react", doc |-> ReactIssue]
    ELSE [kind |-> "ValueError", path |-> "react"]

\* the page parser that falls back only when the first container lacks a body
ParseGithubIssuePageByBody(pg) ==
    IF pg.comments = <<>> \/ pg.comments[1].body = "absent"
    THEN ParseGithubIssueFromReactScript(pg)
    ELSE [kind |-> "document", path |-> "html",
          doc |-> [title |-> ParseTitle(pg),
                   question |-> GithubParseComment(pg.comments[1]),
                   answers |-> [k \in 1..(Len(pg.comments) - 1) |->
                                   GithubParseComment(pg.comments[k + 1])]]]

\* parse_github_issue_page
ParseGithubIssuePage(pg) ==
    IF pg.comments = <<>>
    THEN ParseGithubIssueFromReactScript(pg)
    ELSE [kind |-> "document", path |-> "html",
          doc |-> [title |-> ParseTitle(pg),
                   question |-> GithubParseComment(pg.comments[1]),
                   answers |-> [k \in 1..(Len(pg.comments) - 1) |->
                                   GithubParseComment(pg.comments[k + 1])]]]

\* ---- stackexchange.py ----
\* a div.question / div.answer: votes is the upvoteCount div, cell the
\* postcell / answercell div, text the itemprop="text" div in it, nsig the
\* number of post-signature divs, date the relativetime span and author the
\* user-details div of the author's signature, comment the li.comment
PostDivs ==
    [votes : BOOLEAN, cell : BOOLEAN, text : {"absent", "text"}, nsig : 0..2,
     date : {"absent", "d1"}, author : {"no_details", "no_name", "ann"},
     comment : {"none", "no_user", "ok"}]

\* soup.find("div", class_="question") is None
NoPost == [absent |-> TRUE]

GoodPost ==
    [votes |-> TRUE, cell |-> TRUE, text |-> "text", nsig |-> 1, date |-> "d1",
     author |-> "ann", comment |-> "none"]

StackexchangePages ==
    [variant : {"stackexchange"}, title : {"absent", "Title"},
     question : {NoPost} \cup {d \in PostDivs : d.comment = "none" \/ d = [GoodPost EXCEPT !.comment = d.comment]},
     answers : {<<>>, <<GoodPost>>, <<[GoodPost EXCEPT !.text = "absent"]>>,
                <<GoodPost, [GoodPost EXCEPT !.author = "no_details"]>>}]

\* parse_stackexchange_post
ParseStackexchangePost(div) ==
    IF div = NoPost THEN Raise("AttributeError")
    ELSE IF ~div.votes \/ ~div.cell \/ div.text = "absent" THEN Raise("AttributeError")
    ELSE IF div.nsig \notin {1, 2} THEN Raise("ValueError")
    ELSE IF div.author = "no_name" \/ div.comment = "no_user" THEN Raise("AttributeError")
    ELSE Document([author |-> IF div.author = "no_details" THEN "Unknown" ELSE div.author,
                   text |-> Md(div.text),
                   comments |-> IF div.comment = "none" THEN <<>> ELSE <<div.comment>>,
                   creation_date |-> IF div.date = "absent" THEN "Unknown" ELSE div.date])

\* the loop over soup.find_all("div", class_="answer"): the posts, or the
\* first exception
RECURSIVE ParseAnswers(_)
ParseAnswers(divs) ==
    IF divs = <<>> THEN Document(<<>>)
    ELSE LET first == ParseStackexchangePost(Head(divs))
             rest == ParseAnswers(Tail(divs))
         IN IF first.kind # "document" THEN first
            ELSE IF rest.kind # "document" THEN rest
            ELSE Document(<<first.doc>> \o rest.doc)

\* parse_stackexchange_page
ParseStackexchangePage(pg) ==
    IF pg.title = "absent" THEN Raise("AttributeError")
    ELSE LET q == ParseStackexchangePost(pg.question)
             as == ParseAnswers(pg.answers)
         IN IF q.kind # "document" THEN q
            ELSE IF as.kind # "document" THEN as
            ELSE Document([title |-> pg.title, question |-> q.doc, answers |-> as.doc])

\* ---- discourse.py ----
\* a div.topic-body.crawler-post: creator is the span.creator with its name
\* span, post the div.post, time the <time> element
MessageDivs ==
    [creator : {"absent", "no_name", "ann", "bob"}, post : {"absent", "text"},
     time : {"absent", "t1"}]

DiscoursePages ==
    [variant : {"discourse"}, title : {"absent", "Title"},
     posts : UNION {[1..n -> MessageDivs] : n \in 0..MaxComments}]

\* parse_message
ParseMessage(div) ==
    IF div.creator \in {"absent", "no_name"} \/ div.post = "absent" THEN Raise("AttributeError")
    ELSE IF div.time = "absent" THEN Raise("TypeError")
    ELSE Document([author |-> div.creator, text |-> Md(div.post), timestamp |-> div.time])

\* question = parse_message(comment_divs[0]), then parse_comment for each
\* of comment_divs[1:]: the messages, or the first exception
RECURSIVE ParseMessages(_)
ParseMessages(divs) ==
    IF divs = <<>> THEN Document(<<>>)
    ELSE LET first == ParseMessage(Head(divs))
             rest == ParseMessages(Tail(divs))
         IN IF first.kind # "document" THEN first
            ELSE IF rest.kind # "document" THEN rest
            ELSE Document(<<first.doc>> \o rest.doc)

\* parse_discourse_page
ParseDiscoursePage(pg) ==
    IF pg.title = "absent" THEN Raise("AttributeError")
    ELSE IF pg.posts = <<>> THEN Raise("IndexError")
    ELSE LET ms == ParseMessages(pg.posts)
         IN IF ms.kind # "document" THEN ms
            ELSE Document([title |-> pg.title, question |-> Head(ms.doc),
                           comments |-> Tail(ms.doc)])

\* ---- a parser called on a page ----
Pages == GithubIssuePages \cup StackexchangePages \cup DiscoursePages

ParsePage ==
    /\ parsed = NoParse
    /\ parsed' = CASE page.variant = "github_issue" -> ParseGithubIssuePage(page)
                   [] page.variant = "stackexchange" -> ParseStackexchangePage(page)
                   [] page.variant = "discourse" -> ParseDiscoursePage(page)
    /\ UNCHANGED <<now, trackerVars, histVars, retryVars, crawlVars, dispatchVars, page,
                   retrieveVars, cacheVars>>

InitParse ==
    /\ now = T0
    /\ TrackerInit
    /\ HistInit
    /\ RetryIdle
    /\ CrawlIdle
    /\ DispatchIdle
    /\ page \in Pages
    /\ parsed = NoParse
    /\ RetrieveIdle
    /\ CacheIdle

NextParse == ParsePage

SpecParse == InitParse /\ [][NextParse]_vars

\* the divs of a page that carry a post
PostsOf(pg) ==
    CASE pg.variant = "github_issue" -> {pg.comments[k] : k \in 1..Len(pg.comments)}
      [] pg.variant = "stackexchange" ->
            ({pg.question} \cup {pg.answers[k] : k \in 1..Len(pg.answers)}) \ {NoPost}
      [] pg.variant = "discourse" -> {pg.posts[k] : k \in 1..Len(pg.posts)}

\* a required content element is absent: the title, the container of the
\* question, or the body of a post
RequiredAbsent(pg) ==
    CASE pg.variant = "github_issue" ->
            IF pg.comments = <<>> THEN pg.react # "issue"
            ELSE pg.title = "absent" \/ \E d \in PostsOf(pg) : d.body = "absent"
      [] pg.variant = "stackexchange" ->
            \/ pg.title = "absent" \/ pg.question = NoPost
            \/ \E d \in PostsOf(pg) : ~d.cell \/ d.text = "absent"
      [] pg.variant = "discourse" ->
            \/ pg.title = "absent" \/ pg.posts = <<>>
            \/ \E d \in PostsOf(pg) : d.post = "absent"

\* an element is absent or malformed that is neither required content nor
\* an author, a timestamp or the reactions
OtherDefect(pg) ==
    /\ pg.variant = "stackexchange"
    /\ \E d \in PostsOf(pg) : ~d.votes \/ d.nsig = 0

\* C22: every parser raises ParseError when a required content element
\* (title, post body, comment/post container) is absent, and never returns
\* a document then; when only an author, a timestamp or the reactions are
\* absent it does not fail and returns a document.
C22_ParseErrorOrDefaults ==
    parsed # NoParse =>
        /\ RequiredAbsent(page) => parsed.kind = "ParseError"
        /\ (~RequiredAbsent(page) /\ ~OtherDefect(page)) => parsed.kind = "document"

\* C23: parse_github_issue_page takes the script fallback exactly when the
\* page holds no timeline-comment container; with at least one the html
\* path is used, the first container is the question and the others are the
\* answers in page order.
C23_FallbackIffNoContainer ==
    (parsed # NoParse /\ page.variant = "github_issue") =>
        /\ parsed.path = "react" <=> page.comments = <<>>
        /\ page.comments # <<>> =>
              /\ parsed.path = "html"
              /\ parsed.kind = "document"
              /\ parsed.doc.question = GithubParseComment(page.comments[1])
              /\ Len(parsed.doc.answers) = Len(page.comments) - 1
              /\ \A k \in 1..Len(parsed.doc.answers) :
                    parsed.doc.answers[k] = GithubParseComment(page.comments[k + 1])

\* a page with two containers by different authors was parsed on the html
\* path, the first one without a body
C23_Witness ==
    /\ parsed # NoParse /\ page.variant = "github_issue"
    /\ Len(page.comments) = 2
    /\ page.comments[1].body = "absent"
    /\ parsed.path = "html"
    /\ parsed.doc.question.author = "ann"
    /\ parsed.doc.answers[1].author = "bob"

\* ------------------------------------------------------------------
\* core/retrievers/document_retriever.py: WebDocumentRetriever
\* ------------------------------------------------------------------
MaxLinks == 3          \* links of one batch

RetrieveUrls ==
    {StackoverflowQuestionUrl,
     <<"https://", "github.com", "/", "site", "/", "t", "/", "issues", "/", "123">>,
     <<"https://", "discuss", ".", "site", "/", "t", "/", "questions", "/", "123">>,
     <<"http://", "site", "/", "questions">>}

\* what WebPageFetcher._get_request returns for a link: None after
\* max_retries failed attempts, the text of a page that its parser cannot
\* parse, or the text of a page with the given title
RawDocuments == {"None", "bad", "Title", "Other"}

Links == [url : RetrieveUrls, raw : RawDocuments]

\* the page a fetched text is, for the parser of rule
FetchedPage(rule, raw) ==
    CASE rule = "stackexchange" ->
            [variant |-> "stackexchange", title |-> IF raw = "bad" THEN "absent" ELSE raw,
             question |-> GoodPost, answers |-> <<>>]
      [] rule = "github_issue" ->
            [variant |-> "github_issue", title |-> raw,
             comments |-> IF raw = "bad" THEN <<>>
                          ELSE <<[author |-> "ann", body |-> "text", time |-> "t1",
                                  reactions |-> "absent"]>>,
             react |-> "no_react_app"]
      [] rule = "discourse" ->
            [variant |-> "discourse", title |-> raw,
             posts |-> IF raw = "bad" THEN <<>>
                       ELSE <<[creator |-> "ann", post |-> "text", time |-> "t1"]>>]

\* parser(doc_raw): a parser given None raises, in BeautifulSoup or at the
\* first element it misses
CallParser(link) ==
    LET rule == FirstMatch(ParserMapping, link.url)
    IN IF link.raw = "None" THEN Raise("TypeError")
       ELSE CASE rule = "stackexchange" -> ParseStackexchangePage(FetchedPage(rule, link.raw))
              [] rule = "github_issue" -> ParseGithubIssuePage(FetchedPage(rule, link.raw))
              [] rule = "discourse" -> ParseDiscoursePage(FetchedPage(rule, link.raw))

\* the loop without try/except: the first exception ends it
RECURSIVE ParseLoopUnguarded(_, _)
ParseLoopUnguarded(links, acc) ==
    IF links = <<>> THEN acc
    ELSE LET r == CallParser(Head(links))
         IN IF r.kind # "document"
            THEN [acc EXCEPT !.logged = Append(@, Head(links))]
            ELSE ParseLoopUnguarded(Tail(links),
                                    [acc EXCEPT !.documents = Append(@, r.doc),
                                                !.links_succeeded = Append(@, Head(links))])

\* for link, parser, doc_raw in zip(links, parsers, documents_raw): try
\* parser(doc_raw); except Exception: log the link and continue
RECURSIVE ParseLoop(_, _)
ParseLoop(links, acc) ==
    IF links = <<>> THEN acc
    ELSE LET r == CallParser(Head(links))
         IN ParseLoop(Tail(links),
                      IF r.kind # "document"
                      THEN [acc EXCEPT !.logged = Append(@, Head(links))]
                      ELSE [acc EXCEPT !.documents = Append(@, r.doc),
                                       !.links_succeeded = Append(@, Head(links))])

Dispatchable(link) == FirstMatch(ParserMapping, link.url) # "None"

\* the dict without any key
EmptyDict == <<>>

\* WebDocumentRetriever._parse_documents(links_raw)
ParseDocuments ==
    /\ retrieved = NoRetrieve
    /\ LET links == SelectSeq(links_raw, Dispatchable)
           acc == ParseLoop(links, [documents |-> <<>>, links_succeeded |-> <<>>,
                                    logged |-> <<>>])
       IN retrieved' =
             IF links = <<>>
             THEN [kind |-> "returned", documents |-> <<>>, links_dict |-> EmptyDict,
                   logged |-> <<>>]
             ELSE [kind |-> "returned", documents |-> acc.documents,
                   links_dict |-> [links_raw |-> links_raw, links |-> links,
                                   links_succeeded |-> acc.links_succeeded],
                   logged |-> acc.logged]
    /\ UNCHANGED <<now, trackerVars, histVars, retryVars, crawlVars, dispatchVars, parseVars,
                   links_raw, cacheVars>>

InitRetrieve ==
    /\ now = T0
    /\ TrackerInit
    /\ HistInit
    /\ RetryIdle
    /\ CrawlIdle
    /\ DispatchIdle
    /\ ParseIdle
    /\ links_raw \in UNION {[1..n -> Links] : n \in 0..MaxLinks}
    /\ retrieved = NoRetrieve
    /\ CacheIdle

NextRetrieve == ParseDocuments

SpecRetrieve == InitRetrieve /\ [][NextRetrieve]_vars

ParseRaises(link) == CallParser(link).kind # "document"
ParseSucceeds(link) == Dispatchable(link) /\ ~ParseRaises(link)
ParseFails(link) == Dispatchable(link) /\ ParseRaises(link)

\* the batch went through: the failures are logged with their links, and
\* links_succeeded and the documents are those of the links whose parse did
\* not raise, in input order
BatchParsed ==
    /\ retrieved.kind = "returned"
    /\ retrieved.logged = SelectSeq(links_raw, ParseFails)
    /\ "links_succeeded" \in DOMAIN retrieved.links_dict
    /\ retrieved.links_dict.links_succeeded = SelectSeq(links_raw, ParseSucceeds)
    /\ Len(retrieved.documents) = Len(retrieved.links_dict.links_succeeded)
    /\ \A k \in 1..Len(retrieved.documents) :
          retrieved.documents[k] = CallParser(retrieved.links_dict.links_succeeded[k]).doc

\* C24 as stated: in _parse_documents a document whose fetch or parse fails
\* does not abort the batch: the failure is logged with its link, the other
\* documents are still parsed, links_succeeded is exactly the dispatchable
\* links whose parse did not raise, in input order, and the i-th document
\* returned is the parse of the i-th link of links_succeeded.
C24_BatchNotAborted ==
    retrieved # NoRetrieve => BatchParsed

\* C24, amended: the same for a batch with at least one dispatchable link;
\* a batch without any returns no documents and a dict without keys.
C24_BatchNotAbortedAmended ==
    retrieved # NoRetrieve =>
        IF \E k \in 1..Len(links_raw) : Dispatchable(links_raw[k])
        THEN BatchParsed
        ELSE retrieved.documents = <<>> /\ retrieved.links_dict = EmptyDict

\* a batch whose first link could not be fetched and whose second could not
\* be parsed still returned the document of the third
C24_Witness ==
    /\ retrieved # NoRetrieve
    /\ Len(links_raw) = 3
    /\ links_raw[1].raw = "None" /\ Dispatchable(links_raw[1])
    /\ links_raw[2].raw = "bad" /\ Dispatchable(links_raw[2])
    /\ Len(retrieved.documents) = 1
    /\ retrieved.links_dict.links_succeeded = <<links_raw[3]>>
    /\ retrieved.logged = <<links_raw[1], links_raw[2]>>

\* ------------------------------------------------------------------
\* core/cache/persistent_cache.py: DocumentsPersistentCache
\* ------------------------------------------------------------------
\* max_documents_in_memory: None, an int or a value of another type
MaxNone == [type |-> "none", v |-> 0]
IntValue(n) == [type |-> "int", v |-> n]
MaxValues == {MaxNone, IntValue(0), IntValue(1), IntValue(2), [type |-> "float", v |-> 2]}
ArchiveTypes == {".json", ".txt"}
HashTypes == {"sha256", "crc32"}
\* key_formatter: None, a StackOverflowKeyFormatter, an object of a
\* subclass that key_formatters.from_config does not know, or an object of
\* the base class KeyFormatter
Formatters == {"None", "StackOverflowKeyFormatter", "CustomKeyFormatter", "KeyFormatter"}

CacheParams == [max : MaxValues, archive : ArchiveTypes, hash : HashTypes, kf : Formatters]

\* the keys of _loaders / _savers and of _hashes that the model uses
Loaders == {".json"}
Hashes == {"sha256"}

\* a link .../questions/<id>/<title>, and the documents stored under links
RawKeys == {<<"1", "a">>, <<"1", "b">>, <<"2", "a">>}
CacheDocuments == {"d1", "d2"}

\* a function with key k set to v, and with key k removed
Put(f, k, v) == [x \in DOMAIN f \cup {k} |-> IF x = k THEN v ELSE f[x]]
Drop(f, k) == [x \in DOMAIN f \ {k} |-> f[x]]

\* self._key_formatter(key): StackOverflowKeyFormatter gives
\* f"{pattern}_{link.split('/')[-2]}", no formatter leaves the key
FormatKey(kf, raw) ==
    CASE kf = "None" -> raw
      [] kf = "StackOverflowKeyFormatter" -> <<"stackoverflow_question", raw[1]>>
      [] OTHER -> <<"custom", raw[1], raw[2]>>

\* hash_string(key, hasher): the digest, one per key and algorithm
HashString(key, hash_type) == <<hash_type, key>>

\* json_saver / json_loader
Saved(document) == <<"json", document>>
Loaded(text) == text[2]

\* the stem of config.json
ConfigStem == <<"config", <<>>>>

\* _glob_cache_files: the stems of the files *{archive_type} of the
\* directory, config.json among them when the archive type is .json
GlobCacheFiles(d, archive) ==
    DOMAIN d.files \cup (IF d.config.exists /\ archive = ".json" THEN {ConfigStem} ELSE {})

\* _MaxLengthDict.__setitem__, and dict.__setitem__ when max is None;
\* m = [queue, dict]
SetItem(m, max, key, value) ==
    IF max.type = "none" \/ key \in DOMAIN m.dict
    THEN [m EXCEPT !.dict = Put(m.dict, key, value)]
    ELSE IF Len(m.queue) = max.v
         THEN [queue |-> Append(Tail(m.queue), key),
               dict |-> Put(Drop(m.dict, Head(m.queue)), key, value)]
         ELSE [queue |-> Append(m.queue, key), dict |-> Put(m.dict, key, value)]

NoDocuments == [queue |-> <<>>, dict |-> <<>>]

\* to_config of the formatter: the base class raises NotImplementedError
\* in _get_params
ToConfigRaises(kf) == kf = "KeyFormatter"

\* DocumentsPersistentCache.__init__ on the directory d: the exception it
\* raises, if any, the directory after it and the object built
Construct(d, params) ==
    IF params.max.type # "none" /\ (params.max.type # "int" \/ params.max.v < 1)
    THEN [raised |-> TRUE, exc |-> "ValueError", disk |-> d, cache |-> NoCache]
    ELSE IF params.archive \notin Loaders \/ params.hash \notin Hashes
    THEN [raised |-> TRUE, exc |-> "KeyError", disk |-> d, cache |-> NoCache]
    ELSE IF d.dir = "file"
    THEN [raised |-> TRUE, exc |-> "ValueError", disk |-> d, cache |-> NoCache]
    ELSE LET made == [d EXCEPT !.dir = "dir"]
         IN IF ToConfigRaises(params.kf)
            THEN [raised |-> TRUE, exc |-> "NotImplementedError", disk |-> made,
                  cache |-> NoCache]
            ELSE [raised |-> FALSE, exc |-> "none",
                  disk |-> [made EXCEPT !.config =
                               [exists |-> TRUE, max |-> params.max, archive |-> params.archive,
                                hash |-> params.hash, kf |-> params.kf]],
                  cache |-> [state |-> "built", max |-> params.max, archive |-> params.archive,
                             hash |-> params.hash, kf |-> params.kf,
                             documents |-> NoDocuments,
                             doc_hashes |-> GlobCacheFiles(made, params.archive)]]

\* DocumentsPersistentCache(cache_dir, max_documents_in_memory,
\* archive_type, hash_type, key_formatter)
CacheInit(params) ==
    /\ cache.state = "none"
    /\ LET c == Construct(disk, params)
       IN /\ disk' = c.disk
          /\ cache' = c.cache
          /\ cache_op' = [op |-> "init", params |-> params, raised |-> c.raised, exc |-> c.exc,
                          before |-> disk]
    /\ UNCHANGED <<now, trackerVars, histVars, retryVars, crawlVars, dispatchVars, parseVars,
                   retrieveVars, latest>>

\* DocumentsPersistentCache.from_config(config_dir): key_formatters.from_config
\* runs before cls(...), on the "key_formatter" entry of config.json
FromConfig ==
    /\ cache.state = "none"
    /\ LET cfg == disk.config
           c == IF disk.dir # "dir" \/ ~cfg.exists
                THEN [raised |-> TRUE, exc |-> "FileNotFoundError", disk |-> disk,
                      cache |-> NoCache]
                ELSE IF cfg.kf = "None"
                THEN [raised |-> TRUE, exc |-> "AttributeError", disk |-> disk,
                      cache |-> NoCache]
                ELSE IF cfg.kf # "StackOverflowKeyFormatter"
                THEN [raised |-> TRUE, exc |-> "ValueError", disk |-> disk, cache |-> NoCache]
                ELSE Construct(disk, [max |-> cfg.max, archive |-> cfg.archive,
                                      hash |-> cfg.hash, kf |-> cfg.kf])
       IN /\ disk' = c.disk
          /\ cache' = c.cache
          /\ cache_op' = [op |-> "from_config", params |-> cfg, raised |-> c.raised,
                          exc |-> c.exc, before |-> disk]
    /\ UNCHANGED <<now, trackerVars, histVars, retryVars, crawlVars, dispatchVars, parseVars,
                   retrieveVars, latest>>

\* an insert that never touches the copy held in memory
UpdateHeldNever(m, max, key, document) == m

\* if key in self._documents: self._documents[key] = document
UpdateHeld(m, max, key, document) ==
    IF key \in DOMAIN m.dict THEN SetItem(m, max, key, document) ELSE m

\* insert_document(key_raw, document)
InsertDocument(key_raw, document) ==
    /\ cache.state = "built"
    /\ LET key == FormatKey(cache.kf, key_raw)
           key_hash == HashString(key, cache.hash)
       IN /\ disk' = [disk EXCEPT !.files = Put(@, key_hash, Saved(document))]
          /\ cache' = [cache EXCEPT !.doc_hashes = @ \cup {key_hash},
                                    !.documents = UpdateHeld(@, cache.max, key, document)]
          /\ latest' = Put(latest, key, document)
          /\ cache_op' = [op |-> "insert", key |-> key_raw, raised |-> FALSE]
    /\ UNCHANGED <<now, trackerVars, histVars, retryVars, crawlVars, dispatchVars, parseVars,
                   retrieveVars>>

\* query_document(key_raw)
QueryDocument(key_raw) ==
    /\ cache.state = "built"
    /\ LET key == FormatKey(cache.kf, key_raw)
           key_hash == HashString(key, cache.hash)
           held == key \in DOMAIN cache.documents.dict
       IN IF key_hash \in cache.doc_hashes
          THEN IF ~held
               THEN LET document == Loaded(disk.files[key_hash])
                    IN /\ cache' = [cache EXCEPT !.documents =
                                       SetItem(@, cache.max, key, document)]
                       /\ cache_op' = [op |-> "query", key |-> key_raw, raised |-> FALSE,
                                       found |-> TRUE, document |-> document,
                                       loaded |-> TRUE,
                                       full |-> cache.max.type = "int"
                                                /\ Len(cache.documents.queue) = cache.max.v]
               ELSE /\ cache' = cache
                    /\ cache_op' = [op |-> "query", key |-> key_raw, raised |-> FALSE,
                                    found |-> TRUE, document |-> cache.documents.dict[key],
                                    loaded |-> FALSE, full |-> FALSE]
          ELSE /\ cache' = cache
               /\ cache_op' = [op |-> "query", key |-> key_raw, raised |-> FALSE,
                               found |-> FALSE, document |-> "None", loaded |-> FALSE,
                               full |-> FALSE]
    /\ UNCHANGED <<now, trackerVars, histVars, retryVars, crawlVars, dispatchVars, parseVars,
                   retrieveVars, disk, latest>>

\* clear(): unlink every file *{archive_type} of the directory, config.json
\* included when the archive type is .json; clear the map and the hashes
CacheClear ==
    /\ cache.state = "built"
    /\ disk' = [disk EXCEPT !.files = <<>>,
                            !.config = IF cache.archive = ".json" THEN NoConfig ELSE @]
    /\ cache' = [cache EXCEPT !.documents = NoDocuments, !.doc_hashes = {}]
    /\ latest' = <<>>
    /\ cache_op' = [op |-> "clear", raised |-> FALSE]
    /\ UNCHANGED <<now, trackerVars, histVars, retryVars, crawlVars, dispatchVars, parseVars,
                   retrieveVars>>

\* the config.json files a directory may hold at the start
InitConfigs ==
    {[exists |-> TRUE, max |-> IntValue(1), archive |-> ".json", hash |-> "sha256",
      kf |-> "StackOverflowKeyFormatter"],
     [exists |-> TRUE, max |-> IntValue(0), archive |-> ".json", hash |-> "sha256",
      kf |-> "StackOverflowKeyFormatter"],
     [exists |-> TRUE, max |-> MaxNone, archive |-> ".txt", hash |-> "sha256",
      kf |-> "StackOverflowKeyFormatter"],
     [exists |-> TRUE, max |-> MaxNone, archive |-> ".json", hash |-> "crc32",
      kf |-> "StackOverflowKeyFormatter"],
     [exists |-> TRUE, max |-> IntValue(2), archive |-> ".json", hash |-> "sha256",
      kf |-> "CustomKeyFormatter"],
     [exists |-> TRUE, max |-> MaxNone, archive |-> ".json", hash |-> "sha256", kf |-> "None"]}

InitCache ==
    /\ now = T0
    /\ TrackerInit
    /\ HistInit
    /\ RetryIdle
    /\ CrawlIdle
    /\ DispatchIdle
    /\ ParseIdle
    /\ RetrieveIdle
    /\ disk \in {NoDisk, [NoDisk EXCEPT !.dir = "file"], [NoDisk EXCEPT !.dir = "dir"]}
                  \cup {[dir |-> "dir", config |-> cfg, files |-> <<>>] : cfg \in InitConfigs}
    /\ cache = NoCache
    /\ cache_op = NoCacheOp
    /\ latest = <<>>

NextCache ==
    \/ \E params \in CacheParams : CacheInit(params)
    \/ FromConfig
    \/ \E key_raw \in RawKeys, document \in CacheDocuments : InsertDocument(key_raw, document)
    \/ \E key_raw \in RawKeys : QueryDocument(key_raw)
    \/ CacheClear

SpecCache == InitCache /\ [][NextCache]_vars

\* a parameter the cache cannot work with: max_documents_in_memory that is
\* not an integer >= 1 (None is the unbounded default), an archive type
\* without loader, a hash type without algorithm, a key formatter of a type
\* key_formatters.from_config does not know
InvalidParams(params) ==
    \/ params.max.type # "none" /\ (params.max.type # "int" \/ params.max.v < 1)
    \/ params.archive \notin Loaders
    \/ params.hash \notin Hashes
    \/ params.kf \notin {"None", "StackOverflowKeyFormatter"}

\* C25: invalid cache parameters are rejected with an error when the cache
\* is constructed, directly or through from_config, before the cache
\* directory or its config file is created or changed, and no later call
\* of query_document / insert_document raises for them.
C25_InvalidRejectedAtConstruction ==
    /\ (cache_op.op = "init" /\ InvalidParams(cache_op.params)) =>
          cache_op.raised /\ disk = cache_op.before
    /\ (cache_op.op = "from_config" /\ cache_op.params.exists
            /\ InvalidParams(cache_op.params)) =>
          cache_op.raised /\ disk = cache_op.before
    /\ cache_op.op \in {"insert", "query", "clear"} => ~cache_op.raised

\* C30: query_document(k) returns the document inserted last under k's
\* formatted key since the last clear, also when an older copy was held in
\* memory or k was evicted from the bounded map, and None exactly when
\* nothing was inserted under it since the last clear; the map never holds
\* more than max_documents_in_memory entries.
C30_QueryReturnsLatest ==
    /\ cache_op.op = "query" =>
          LET key == FormatKey(cache.kf, cache_op.key)
          IN IF key \in DOMAIN latest
             THEN cache_op.found /\ cache_op.document = latest[key]
             ELSE ~cache_op.found
    /\ (cache.state = "built" /\ cache.max.type = "int") =>
          /\ Cardinality(DOMAIN cache.documents.dict) <= cache.max.v
          /\ Len(cache.documents.queue) = Cardinality(DOMAIN cache.documents.dict)

\* a query loaded a re-inserted document from disk into a full map of one
\* entry, evicting the key queried before
C30_Witness ==
    /\ cache_op.op = "query"
    /\ cache_op.loaded /\ cache_op.full
    /\ cache.max = IntValue(1)
    /\ cache_op.document = "d2"
    /\ Cardinality(DOMAIN latest) = 2


\* ------------------------------------------------------------------
\* fetch_repos: the requests sent and the requests recorded
\* ------------------------------------------------------------------
\* the point cost of the requests fetch_repos sent in the WINDOW seconds
\* that start at time t
IssuedWithin(t) ==
    Cardinality({j \in 1..Len(issued.times) :
                    issued.times[j] >= t /\ issued.times[j] <= t + WINDOW})
        * RequestPoints(<<"get">>)

\* C26: in one fetch_repos run the point cost of the requests sent in any
\* 60 seconds is at most POINTS_RATE_LIMIT + 1: every request sent, a
\* retried one included, has been recorded in the points window before the
\* next one is sent (at most the request just sent is not recorded yet).
C26_EveryRequestAccounted ==
    mode = "gh" =>
        /\ \A j \in 1..Len(issued.times) :
              IssuedWithin(issued.times[j]) <= POINTS_RATE_LIMIT + 1
        /\ Len(issued.times) - issued.accounted <= 1


\* ------------------------------------------------------------------
\* _safe_request: attempts, sleeps and result
\* ------------------------------------------------------------------
\* the attempts before the last one of the call all failed with an Exception
FailedBefore(hist) == \A k \in 1..(Len(hist) - 1) : hist[k].kind \in Failures

\* C28: when the first successful attempt of _safe_request is attempt k, the
\* call makes exactly k attempts, returns the handler's result of attempt k
\* and sleeps retry_delay exactly k - 1 times; when no attempt succeeds it
\* sleeps retry_delay exactly max_retries times, once after every failed
\* attempt, the last included, and returns None; with max_retries = 0 it
\* makes no attempt and returns None.
C28_AttemptsAndSleeps ==
    /\ now = T0 + sr_sleeps * RETRY_DELAY
    /\ Len(sr_hist) <= max_retries
    /\ FailedBefore(sr_hist)
    /\ (sr_pc \in {"loop", "returned"} /\ AllFailed(sr_hist)) => sr_sleeps = Len(sr_hist)
    /\ (sr_pc = "returned" /\ sr_hist # <<>> /\ sr_hist[Len(sr_hist)].kind = "ok") =>
          /\ sr_result = sr_hist[Len(sr_hist)].val
          /\ sr_sleeps = Len(sr_hist) - 1
    /\ (sr_pc = "returned" /\ AllFailed(sr_hist)) =>
          /\ Len(sr_hist) = max_retries
          /\ sr_sleeps = max_retries
          /\ sr_result = None
    /\ (sr_pc # "idle" /\ max_retries = 0) => sr_hist = <<>>

\* two failed attempts, then the third of three succeeds with "r2"
C28_Witness ==
    /\ max_retries = 3
    /\ sr_pc = "returned"
    /\ Len(sr_hist) = 3
    /\ sr_hist[3] = [kind |-> "ok", val |-> "r2"]
    /\ sr_result = "r2"
    /\ sr_sleeps = 2


\* ------------------------------------------------------------------
\* fetch_stackoverflow_questions.py: the key a request carries
\* ------------------------------------------------------------------
\* C27: every request sent through a worker, the requests of _init_run and
\* reset_worker included, carries that worker's own app key and no key when
\* the worker has none, whatever the other workers sent before; and sending
\* requests never changes the class-level PARAMS.
C27_OwnKeyOnly ==
    mode = "so" =>
        /\ class_key = "none"
        /\ (pc = "init" /\ wi > 1) => class_key = workers[wi - 1].app_key
        /\ (pc \in {"persist", "failed"} /\ page_requests > 0) =>
              params_key = workers[selected].app_key


\* ------------------------------------------------------------------
\* scripts/fetch_all_github_repos.py: GitHubReposFetcher
\* ------------------------------------------------------------------
\* This crawler has its own _get_request, which retries the built-in
\* ConnectionError only and does not look at the status of the response.
\* A response is [page, remaining, reset, backoff, status]; a response whose
\* status is not "ok" carries no data and no next link.
AllStatuses == {"ok", "forbidden", "server_error"}

allFrame == <<trackerVars, histVars, docVars, sr_pc, max_retries, sr_hist, sr_sleeps, sr_result,
              mode, run, how1, store1, dataset, all403, soVars>>

\* "next" in response.links
AllHasNext(resp) == resp.status = "ok" /\ resp.page < Len(dataset)

\* requests.get raises ConnectionError: retry_count += 1, sleep retry_delay
AllAttemptConnectionError ==
    /\ mode = "all" /\ pc = "request"
    /\ LoopTest(retry_count, max_retries)
    /\ retry_count' = retry_count + 1
    /\ now' = now + RETRY_DELAY
    /\ UNCHANGED <<allFrame, pc, store, cursor, response, persisted>>

\* requests.get raises something else (a requests exception is not a
\* ConnectionError of the builtins): nothing catches it
AllAttemptRaises ==
    /\ mode = "all" /\ pc = "request"
    /\ LoopTest(retry_count, max_retries)
    /\ pc' = "crashed"
    /\ UNCHANGED <<now, allFrame, retry_count, store, cursor, response, persisted>>

\* requests.get returns a response: break, return response
AllAttemptReturns(status, remaining, off) ==
    /\ mode = "all" /\ pc = "request"
    /\ LoopTest(retry_count, max_retries)
    /\ response' = [page |-> cursor, remaining |-> remaining, reset |-> now + off,
                     backoff |-> NONE, status |-> status]
    /\ pc' = "persist"
    /\ UNCHANGED <<now, allFrame, retry_count, store, cursor, persisted>>

\* the while-else of _get_request: return None, fetch_repos returns
AllRequestExhausted ==
    /\ mode = "all" /\ pc = "request"
    /\ ~LoopTest(retry_count, max_retries)
    /\ pc' = "failed"
    /\ UNCHANGED <<now, allFrame, retry_count, store, cursor, response, persisted>>

\* data = response.json() raises (the body of an error response is not
\* JSON): the call is outside the try block
AllJsonRaises ==
    /\ mode = "all" /\ pc = "persist"
    /\ response.status # "ok"
    /\ pc' = "crashed"
    /\ UNCHANGED <<now, allFrame, retry_count, store, cursor, response, persisted>>

\* _update_db_with_reponse_data, the sink takes the records.  (update_bulk
\* is called as update_bulk(insert_data, upsert=True); a sink with that
\* signature stores the records, here by full_name as the sibling crawler.)
AllPersist ==
    /\ mode = "all" /\ pc = "persist"
    /\ response.status = "ok"
    /\ store' = UpdateBulk(store, GH_INDEX_KEY,
                           InsertData(dataset[response.page], GH_PARSE_KEYS), TRUE)
    /\ persisted' = persisted \cup {response.page}
    /\ pc' = "check"
    /\ UNCHANGED <<now, allFrame, retry_count, cursor, response>>

\* _update_db_with_reponse_data, the try block raises: the body is not a
\* list of repositories, the sink fails, or the sink is MongoDB, whose
\* update_bulk(update_key, data, ...) lacks its data argument in this call.
\* The except block logs the error and the method returns.
AllPersistFails ==
    /\ mode = "all" /\ pc = "persist"
    /\ pc' = "check"
    /\ UNCHANGED <<now, allFrame, retry_count, store, cursor, response, persisted>>

\* self._check_rate_limits(response, ["get"])
AllCheck ==
    LET c == CheckRateLimits(Self, response.remaining, response.reset, <<"get">>, now)
    IN /\ mode = "all" /\ pc = "check"
       /\ queries_remaining' = [queries_remaining EXCEPT ![Self] = response.remaining]
       /\ reset_timestemp' = [reset_timestemp EXCEPT ![Self] = response.reset]
       /\ points' = c.p
       /\ timestamps' = c.t
       /\ total_points' = [total_points EXCEPT ![Self] = c.total]
       /\ now' = c.now
       /\ pc' = IF c.raised THEN "crashed" ELSE "advance"
       /\ UNCHANGED <<histVars, docVars, retryVars, mode, run, how1, store1, store, dataset,
                      cursor, response, persisted, all403, soVars>>

\* the head of the while loop
AllAdvance ==
    /\ mode = "all" /\ pc = "advance"
    /\ IF AllHasNext(response)
       THEN /\ cursor' = response.page + 1
            /\ pc' = "request"
            /\ retry_count' = 0
       ELSE /\ pc' = "done"
            /\ UNCHANGED <<cursor, retry_count>>
    /\ UNCHANGED <<now, allFrame, store, response, persisted>>

\* fetcher = GitHubReposFetcher(db, max_retries = n); fetcher.fetch_repos(token),
\* up to the first _get_request
InitAll ==
    /\ now = T0
    /\ TrackerInit
    /\ HistInit
    /\ DocIdle
    /\ mode = "all"
    /\ pc = "request"
    /\ run = 1
    /\ how1 = "none"
    /\ store1 = <<>>
    /\ store = <<>>
    /\ \E shape \in Shapes, n \in 1..MaxPages : dataset = Dataset(shape, n)
    /\ cursor = 1
    /\ response = NoResponse
    /\ persisted = {}
    /\ all403 = FALSE
    /\ sr_pc = "idle"
    /\ max_retries \in 1..MaxRetries
    /\ retry_count = 0
    /\ sr_hist = <<>>
    /\ sr_sleeps = 0
    /\ sr_result = "unset"
    /\ SOIdle

NextAll ==
    \/ AllAttemptConnectionError
    \/ AllAttemptRaises
    \/ \E status \in AllStatuses, h \in OkHeaders : AllAttemptReturns(status, h[1], h[2])
    \/ AllRequestExhausted
    \/ AllJsonRaises
    \/ AllPersist
    \/ AllPersistFails
    \/ AllCheck
    \/ AllAdvance

SpecAll == InitAll /\ [][NextAll]_vars

\* the repositories of page p are in the collection
AllStored(p) ==
    \A k \in 1..Len(dataset[p]) :
        \E d \in 1..Len(store) : store[d][GH_INDEX_KEY] = dataset[p][k][GH_INDEX_KEY]

\* C29: GitHubReposFetcher does not pass over a page whose persistence
\* failed: when writing page N raises it does not request page N + 1, so
\* every page before the cursor is in the store.
C29_FailedPageNotPassedOver ==
    mode = "all" =>
        \A p \in 1..(cursor - 1) : p \in persisted /\ AllStored(p)

====
